---- MODULE Spec2Model ----
(***************************************************************************)
(* Model of the memory-hierarchy simulator (sim.py, mem_ifc.py, l1cache.py, *)
(* l2cache.py, main_memory.py).                                             *)
(*                                                                          *)
(* One action per trace instruction (the body of simulate_cpu's loop): the  *)
(* whole call chain L1 -> (L2) -> MainMemory of MemoryInterface.load/store  *)
(* is computed by operators over a record h holding the state of the three *)
(* levels.  Address arithmetic keeps the program's constants (24 address    *)
(* bits, 4 KiB L1, 32 KiB L2); the byte arrays are kept only at the         *)
(* positions the traces of the model can touch (every other byte keeps its  *)
(* initial value for the whole run).                                        *)
(*                                                                          *)
(* Spec, SpecL1 and SpecL2 are one simulation from its construction on.     *)
(* SpecProc is a process from its start to its exit: the arguments, one or  *)
(* more calls of run_sim, the output files and the exit status.  SpecCalls  *)
(* is a client that calls a method of a level directly, SpecAddress one     *)
(* that constructs a cache of any block size for its address arithmetic.    *)
(***************************************************************************)
EXTENDS Integers, Sequences, FiniteSets, TLC

(***************************************************************************)
(* Python integer operators used by the program.                            *)
(***************************************************************************)
RECURSIVE Pow2Rec(_)
Pow2Rec(n) == IF n <= 0 THEN 1 ELSE 2 * Pow2Rec(n - 1)

\* 2^n for n in 0..30, tabulated
Pow2Table == [n \in 0..30 |-> Pow2Rec(n)]
Pow2(n) == Pow2Table[n]

RECURSIVE BitAndRec(_, _)
BitAndRec(a, b) ==
    IF a = 0 \/ b = 0 THEN 0
    ELSE (a % 2) * (b % 2) + 2 * BitAndRec(a \div 2, b \div 2)

RECURSIVE BitOrRec(_, _)
BitOrRec(a, b) ==
    IF a = 0 THEN b
    ELSE IF b = 0 THEN a
    ELSE (IF (a % 2) + (b % 2) > 0 THEN 1 ELSE 0) + 2 * BitOrRec(a \div 2, b \div 2)

\* the two operators on bytes, tabulated
AndTable == [x \in 0..255 |-> [y \in 0..255 |-> BitAndRec(x, y)]]
OrTable == [x \in 0..255 |-> [y \in 0..255 |-> BitOrRec(x, y)]]

\* a & b on non-negative integers, one byte at a time
RECURSIVE BitAnd(_, _)
BitAnd(a, b) ==
    IF a = 0 \/ b = 0 THEN 0
    ELSE AndTable[a % 256][b % 256] + 256 * BitAnd(a \div 256, b \div 256)

\* a | b on non-negative integers, one byte at a time
RECURSIVE BitOr(_, _)
BitOr(a, b) ==
    IF a = 0 THEN b
    ELSE IF b = 0 THEN a
    ELSE OrTable[a % 256][b % 256] + 256 * BitOr(a \div 256, b \div 256)

\* a << n and a >> n
ShiftL(a, n) == a * Pow2(n)
ShiftR(a, n) == a \div Pow2(n)

\* mutant of BitClear: the complement is forgotten (a & m)
BitClear_complement_forgotten(a, m) == BitAnd(a, m)

\* a & ~m (Python integers are unbounded: the bits of m are cleared in a)
BitClear(a, m) == a - BitAnd(a, m)

\* int(log2(n)) for n >= 1
RECURSIVE Log2(_)
Log2(n) == IF n <= 1 THEN 0 ELSE 1 + Log2(n \div 2)

\* ceil(n / w) for n >= 0, w > 0
Ceil(n, w) == (n + w - 1) \div w

(***************************************************************************)
(* Program constants.                                                       *)
(***************************************************************************)
CPU_DATA_SIZE == 4

L1_CACHE_SIZE_IN_BYTES == 4096
L1_MEM_BUS_WIDTH == 32
L1_MEM_HIT_TIME == 1
L1_MEM_BUS_ACCESS_TIME == 1
ADDRESS_BITS == 24

L2_CACHE_SIZE_IN_BYTES == 32768
NUM_OF_WAYS == 2
L2_MEM_BUS_WIDTH == 256
L2_MEM_HIT_TIME == 4
L2_MEM_BUS_ACCESS_TIME == 1

MM_MEM_BUS_WIDTH == 64
MEM_ACCESS_TIME == 100
MM_MEM_BUS_ACCESS_TIME == 1

(***************************************************************************)
(* L1Cache.create_mask: `length' one-bits shifted left by `shift'.  The     *)
(* loop runs length-1 times and one more bit is always applied.             *)
(***************************************************************************)
RECURSIVE create_mask_loop(_, _)
create_mask_loop(mask, n) ==
    IF n <= 0 THEN mask ELSE create_mask_loop(ShiftL(BitOr(mask, 1), 1), n - 1)

create_mask(length, shift) ==
    ShiftL(BitOr(create_mask_loop(0, length - 1), 1), shift)

(***************************************************************************)
(* L1Cache.__init__: the fields of the object, for block size block_size.   *)
(***************************************************************************)
L1Cache_init(block_size) ==
    LET num_of_blocks == L1_CACHE_SIZE_IN_BYTES \div block_size
        offset_bits == Log2(block_size)
        index_bits == Log2(num_of_blocks)
        tag_bits == ADDRESS_BITS - offset_bits - index_bits
        dirty_bit_index == tag_bits
        valid_bit_index == tag_bits + 1
    IN [block_size |-> block_size,
        num_of_blocks |-> num_of_blocks,
        offset_bits |-> offset_bits,
        index_bits |-> index_bits,
        tag_bits |-> tag_bits,
        offset_mask |-> create_mask(offset_bits, 0),
        index_mask |-> create_mask(index_bits, offset_bits),
        tag_mask |-> create_mask(tag_bits, offset_bits + index_bits),
        tag_mem_mask |-> create_mask(tag_bits, 0),
        dirty_bit_index |-> dirty_bit_index,
        valid_bit_index |-> valid_bit_index,
        dirty_mask |-> create_mask(1, dirty_bit_index),
        valid_mask |-> create_mask(1, valid_bit_index)]

\* L1Cache.address_to_offset: the address is masked with offset_bits
L1_address_to_offset(self, address) == BitAnd(address, self.offset_bits)

L1_address_to_block_num(self, address) ==
    ShiftR(BitAnd(address, self.index_mask), self.offset_bits)

L1_address_to_tag(self, address) ==
    ShiftR(BitAnd(address, self.tag_mask), self.offset_bits + self.index_bits)

L1_address_from_tag_index(self, tag, index) ==
    BitOr(ShiftL(tag, self.offset_bits + self.index_bits),
          ShiftL(index, self.offset_bits))

\* L1Cache.transfer_cycles: data_size (bytes) is divided by the bus width (bits)
L1_transfer_cycles(data_size) ==
    L1_MEM_HIT_TIME + (Ceil(data_size, L1_MEM_BUS_WIDTH) - 1) * L1_MEM_BUS_ACCESS_TIME

(***************************************************************************)
(* L2Cache.__init__: the fields of the object, for block size block_size.   *)
(***************************************************************************)
L2Cache_init(block_size) ==
    LET num_of_lines == L2_CACHE_SIZE_IN_BYTES \div (NUM_OF_WAYS * block_size)
        offset_bits == Log2(block_size)
        index_bits == Log2(num_of_lines)
        tag_bits == ADDRESS_BITS - index_bits - offset_bits
        dirty_bit_index == tag_bits
        valid_bit_index == tag_bits + 1
    IN [block_size |-> block_size,
        num_of_lines |-> num_of_lines,
        offset_bits |-> offset_bits,
        index_bits |-> index_bits,
        tag_bits |-> tag_bits,
        offset_mask |-> create_mask(offset_bits, 0),
        index_mask |-> create_mask(index_bits, offset_bits),
        tag_mask |-> create_mask(tag_bits, offset_bits + index_bits),
        tag_mem_mask |-> create_mask(tag_bits, 0),
        dirty_bit_index |-> dirty_bit_index,
        valid_bit_index |-> valid_bit_index,
        dirty_mask |-> create_mask(1, dirty_bit_index),
        valid_mask |-> create_mask(1, valid_bit_index)]

apply_mask(num, mask, shift_right) == ShiftR(BitAnd(num, mask), shift_right)

\* index, address_tag and start as L2Cache's methods compute them
L2_address_to_index(self, address) ==
    apply_mask(address, self.index_mask, self.offset_bits)

L2_address_to_tag(self, address) ==
    apply_mask(address, self.tag_mask, self.offset_bits + self.index_bits)

L2_address_to_offset(self, address) == apply_mask(address, self.offset_mask, 0)

\* mutant of L2_address_from_tag_index: the index is not shifted above the offset
L2_address_from_tag_index_index_unshifted(self, tag, index) ==
    BitOr(ShiftL(tag, self.offset_bits + self.index_bits), index)

L2_address_from_tag_index(self, tag, index) ==
    BitOr(ShiftL(tag, self.offset_bits + self.index_bits),
          ShiftL(index, self.offset_bits))

\* mutant of L2_transfer_cycles: the bytes are divided by the bus width in bits
L2_transfer_cycles_bytes_over_bits(data_size) ==
    L2_MEM_HIT_TIME
      + (Ceil(data_size, L2_MEM_BUS_WIDTH) - 1) * L2_MEM_BUS_ACCESS_TIME

L2_transfer_cycles(data_size) ==
    L2_MEM_HIT_TIME
      + (Ceil(8 * data_size, L2_MEM_BUS_WIDTH) - 1) * L2_MEM_BUS_ACCESS_TIME

\* mutant of MM_transfer_cycles: the first bus transfer is charged on top of the access
MM_transfer_cycles_first_transfer_charged(data_size) ==
    MEM_ACCESS_TIME + Ceil(data_size, MM_MEM_BUS_WIDTH) * MM_MEM_BUS_ACCESS_TIME

\* MainMemory.transfer_cycles: data_size (bytes) is divided by the bus width (bits)
MM_transfer_cycles(data_size) ==
    MEM_ACCESS_TIME
      + (Ceil(data_size, MM_MEM_BUS_WIDTH) - 1) * MM_MEM_BUS_ACCESS_TIME

(***************************************************************************)
(* The hierarchy.  h is a record with the fields                            *)
(*   levels                   the argument of run_sim                       *)
(*   l1, l2                   the fields L1Cache.__init__, L2Cache.__init__ *)
(*                            set (l2 is empty when levels = 1)             *)
(*   mem                      MainMemory.mem                                *)
(*   l1_data_mem, l1_tag_mem  L1Cache.data_mem, L1Cache.tag_mem             *)
(*   l2_data_mem, l2_tag_mem, l2_lru_mem   the arrays of L2Cache            *)
(*   stats                    the four counters of each level               *)
(*   reqs, flushes, fills     what the running instruction did (observers)  *)
(*   l2_mru                   per L2 set, the way of the last L2 load/store *)
(*   served                   the L2 loads/stores that returned (observer)  *)
(* A level is "L1", "L2" or "MM".                                           *)
(***************************************************************************)

\* self.next_mem, as run_sim links the levels
next_mem(h, level) ==
    IF level = "L1" /\ h.levels = 2 THEN "L2" ELSE "MM"

\* mutant of IncStat: write misses are not counted
IncStat_write_miss_lost(h, level, counter) ==
    IF counter = "write_misses" THEN h
    ELSE [h EXCEPT !.stats[level][counter] = @ + 1]

\* mutant of IncStat: a read miss is counted as a read hit
IncStat_read_miss_as_hit(h, level, counter) ==
    IF counter = "read_misses" THEN [h EXCEPT !.stats[level]["read_hits"] = @ + 1]
    ELSE [h EXCEPT !.stats[level][counter] = @ + 1]

\* mutant of IncStat: a hit is counted twice
IncStat_hit_counted_twice(h, level, counter) ==
    IF counter \in {"read_hits", "write_hits"}
    THEN [h EXCEPT !.stats[level][counter] = @ + 2]
    ELSE [h EXCEPT !.stats[level][counter] = @ + 1]

\* self.<counter> += 1
IncStat(h, level, counter) ==
    [h EXCEPT !.stats[level][counter] = @ + 1]

\* a Python slice arr[start:end] of a list of length n, as a sequence
PySlice(arr, n, start, end) ==
    LET stop == IF end < n THEN end ELSE n
    IN [i \in 1..(IF stop > start THEN stop - start ELSE 0) |-> arr[start + i - 1]]

\* a Python list index: a negative index counts from the end
PyIndex(i, n) == IF i < 0 THEN n + i ELSE i

(***************************************************************************)
(* MainMemory                                                               *)
(***************************************************************************)
MM_read(h, address, data_size) ==
    [h |-> h,
     data |-> [i \in 1..data_size |-> h.mem[address + i - 1]],
     cycles |-> MM_transfer_cycles(data_size)]

MM_write(h, address, mark_dirty, data_size, data) ==
    [h |-> [h EXCEPT !.mem =
                [x \in DOMAIN h.mem |->
                    IF x >= address /\ x < address + data_size
                    THEN data[x - address + 1] ELSE h.mem[x]]],
     cycles |-> MM_transfer_cycles(data_size)]

\* mutant of MM_flush_if_needed: it returns 0 cycles, as the flush of a clean slot
MM_flush_if_needed_returns_zero(h, address) == [h |-> h, raised |-> FALSE]

\* MainMemory.flush_if_needed: raise NotImplementedError, nothing else
MM_flush_if_needed(h, address) == [h |-> h, raised |-> TRUE]

\* MainMemory.get_block_size: raise NotImplementedError, nothing else
MM_get_block_size(h) == [h |-> h, raised |-> TRUE]

(***************************************************************************)
(* L1Cache                                                                  *)
(***************************************************************************)
L1_is_address_present(h, address) ==
    LET index == L1_address_to_block_num(h.l1, address)
        cached_tag_mem == h.l1_tag_mem[index]
        address_tag == L1_address_to_tag(h.l1, address)
        cache_tag == BitAnd(cached_tag_mem, h.l1.tag_mem_mask)
        is_valid == ShiftR(BitAnd(cached_tag_mem, h.l1.valid_mask),
                           h.l1.valid_bit_index) # 0
    IN is_valid /\ address_tag = cache_tag

L1_read(h, address, data_size) ==
    LET block_num == L1_address_to_block_num(h.l1, address)
        offset == L1_address_to_offset(h.l1, address)
        start == block_num * h.l1.block_size + offset
        end == start + data_size
    IN [h |-> h,
        data |-> PySlice(h.l1_data_mem, L1_CACHE_SIZE_IN_BYTES, start, end),
        cycles |-> L1_transfer_cycles(data_size)]

\* mutant of L1_write: the dirty bit is set also when mark_dirty is false (a fill)
L1_write_fill_marked_dirty(h, address, mark_dirty, data_size, data) ==
    LET block_num == L1_address_to_block_num(h.l1, address)
        offset == L1_address_to_offset(h.l1, address)
        start == block_num * h.l1.block_size + offset
        end == start + data_size
        tag == L1_address_to_tag(h.l1, address)
        entry == BitOr(BitOr(tag, h.l1.valid_mask), h.l1.dirty_mask)
    IN [h |-> [h EXCEPT
                 !.l1_data_mem =
                    [x \in DOMAIN h.l1_data_mem |->
                        IF x >= start /\ x < end
                        THEN data[x - start + 1] ELSE h.l1_data_mem[x]],
                 !.l1_tag_mem[block_num] = entry],
        cycles |-> L1_transfer_cycles(data_size)]

\* mutant of L1_write: a write that marks the block dirty does not set the valid bit
L1_write_overlay_drops_valid(h, address, mark_dirty, data_size, data) ==
    LET block_num == L1_address_to_block_num(h.l1, address)
        offset == L1_address_to_offset(h.l1, address)
        start == block_num * h.l1.block_size + offset
        end == start + data_size
        tag == L1_address_to_tag(h.l1, address)
        entry == IF mark_dirty THEN BitOr(tag, h.l1.dirty_mask)
                 ELSE BitOr(tag, h.l1.valid_mask)
    IN [h |-> [h EXCEPT
                 !.l1_data_mem =
                    [x \in DOMAIN h.l1_data_mem |->
                        IF x >= start /\ x < end
                        THEN data[x - start + 1] ELSE h.l1_data_mem[x]],
                 !.l1_tag_mem[block_num] = entry],
        cycles |-> L1_transfer_cycles(data_size)]

L1_write(h, address, mark_dirty, data_size, data) ==
    LET block_num == L1_address_to_block_num(h.l1, address)
        offset == L1_address_to_offset(h.l1, address)
        start == block_num * h.l1.block_size + offset
        end == start + data_size
        tag == L1_address_to_tag(h.l1, address)
        tag_mem_entry == BitOr(tag, h.l1.valid_mask)
        entry == IF mark_dirty THEN BitOr(tag_mem_entry, h.l1.dirty_mask)
                 ELSE tag_mem_entry
    IN [h |-> [h EXCEPT
                 !.l1_data_mem =
                    [x \in DOMAIN h.l1_data_mem |->
                        IF x >= start /\ x < end
                        THEN data[x - start + 1] ELSE h.l1_data_mem[x]],
                 !.l1_tag_mem[block_num] = entry],
        cycles |-> L1_transfer_cycles(data_size)]

(***************************************************************************)
(* L2Cache                                                                  *)
(***************************************************************************)
\* the loop over the ways: the first valid way whose tag matches, else -1
RECURSIVE L2_present_from(_, _, _)
L2_present_from(h, address, i) ==
    IF i >= NUM_OF_WAYS THEN -1
    ELSE LET index == L2_address_to_index(h.l2, address)
             address_tag == L2_address_to_tag(h.l2, address)
             cached == h.l2_tag_mem[index][i]
             valid_bit == apply_mask(cached, h.l2.valid_mask,
                                     h.l2.valid_bit_index)
             way_tag == apply_mask(cached, h.l2.tag_mem_mask, 0)
         IN IF valid_bit # 0 /\ address_tag = way_tag THEN i
            ELSE L2_present_from(h, address, i + 1)

L2_address_present_in_way(h, address) == L2_present_from(h, address, 0)

L2_is_address_present(h, address) == L2_address_present_in_way(h, address) # -1

\* mutant of L2_read: the LRU bit is left as it is
L2_read_lru_not_updated(h, address, data_size) ==
    LET index == L2_address_to_index(h.l2, address)
        way == L2_address_present_in_way(h, address)
        w == PyIndex(way, NUM_OF_WAYS)
        start == L2_address_to_offset(h.l2, address)
        end == start + data_size
    IN [h |-> h,
        data |-> PySlice(h.l2_data_mem[index][w], h.l2.block_size, start, end),
        cycles |-> L2_transfer_cycles(data_size)]

\* mutant of L2_read: the way that was read becomes the least recently used one
L2_read_served_way_becomes_lru(h, address, data_size) ==
    LET index == L2_address_to_index(h.l2, address)
        way == L2_address_present_in_way(h, address)
        w == PyIndex(way, NUM_OF_WAYS)
        start == L2_address_to_offset(h.l2, address)
        end == start + data_size
    IN [h |-> [h EXCEPT !.l2_lru_mem[index] = w],
        data |-> PySlice(h.l2_data_mem[index][w], h.l2.block_size, start, end),
        cycles |-> L2_transfer_cycles(data_size)]

L2_read(h, address, data_size) ==
    LET index == L2_address_to_index(h.l2, address)
        way == L2_address_present_in_way(h, address)
        w == PyIndex(way, NUM_OF_WAYS)
        start == L2_address_to_offset(h.l2, address)
        end == start + data_size
    IN [h |-> IF h.l2_lru_mem[index] = way
              THEN [h EXCEPT !.l2_lru_mem[index] = 1 - way] ELSE h,
        data |-> PySlice(h.l2_data_mem[index][w], h.l2.block_size, start, end),
        cycles |-> L2_transfer_cycles(data_size)]

\* mutant of L2_write: the LRU bit is not updated
L2_write_lru_not_updated(h, address, mark_dirty, data_size, data) ==
    LET index == L2_address_to_index(h.l2, address)
        way == IF mark_dirty THEN L2_address_present_in_way(h, address)
               ELSE h.l2_lru_mem[index]
        w == PyIndex(way, NUM_OF_WAYS)
        start == L2_address_to_offset(h.l2, address)
        end == start + data_size
        tag == L2_address_to_tag(h.l2, address)
        tag_mem_entry == BitOr(tag, h.l2.valid_mask)
        entry == IF mark_dirty THEN BitOr(tag_mem_entry, h.l2.dirty_mask)
                 ELSE tag_mem_entry
    IN [h |-> [h EXCEPT
                 !.l2_data_mem[index][w] =
                    [x \in DOMAIN h.l2_data_mem[index][w] |->
                        IF x >= start /\ x < end
                        THEN data[x - start + 1] ELSE h.l2_data_mem[index][w][x]],
                 !.l2_tag_mem[index][w] = entry],
        cycles |-> L2_transfer_cycles(data_size)]

\* mutant of L2_write: the way written is the LRU way, also for a block that is present
L2_write_always_lru_way(h, address, mark_dirty, data_size, data) ==
    LET index == L2_address_to_index(h.l2, address)
        way == h.l2_lru_mem[index]
        start == L2_address_to_offset(h.l2, address)
        end == start + data_size
        tag == L2_address_to_tag(h.l2, address)
        tag_mem_entry == BitOr(tag, h.l2.valid_mask)
        entry == IF mark_dirty THEN BitOr(tag_mem_entry, h.l2.dirty_mask)
                 ELSE tag_mem_entry
        h1 == [h EXCEPT
                 !.l2_data_mem[index][way] =
                    [x \in DOMAIN h.l2_data_mem[index][way] |->
                        IF x >= start /\ x < end
                        THEN data[x - start + 1] ELSE h.l2_data_mem[index][way][x]],
                 !.l2_tag_mem[index][way] = entry]
    IN [h |-> [h1 EXCEPT !.l2_lru_mem[index] = 1 - way],
        cycles |-> L2_transfer_cycles(data_size)]

\* mutant of L2_write: a dirty entry is written without the valid bit
L2_write_dirty_without_valid(h, address, mark_dirty, data_size, data) ==
    LET index == L2_address_to_index(h.l2, address)
        way == IF mark_dirty THEN L2_address_present_in_way(h, address)
               ELSE h.l2_lru_mem[index]
        w == PyIndex(way, NUM_OF_WAYS)
        start == L2_address_to_offset(h.l2, address)
        end == start + data_size
        tag == L2_address_to_tag(h.l2, address)
        entry == IF mark_dirty THEN BitOr(tag, h.l2.dirty_mask)
                 ELSE BitOr(tag, h.l2.valid_mask)
        h1 == [h EXCEPT
                 !.l2_data_mem[index][w] =
                    [x \in DOMAIN h.l2_data_mem[index][w] |->
                        IF x >= start /\ x < end
                        THEN data[x - start + 1] ELSE h.l2_data_mem[index][w][x]],
                 !.l2_tag_mem[index][w] = entry]
    IN [h |-> IF h1.l2_lru_mem[index] = way
              THEN [h1 EXCEPT !.l2_lru_mem[index] = 1 - way] ELSE h1,
        cycles |-> L2_transfer_cycles(data_size)]

L2_write(h, address, mark_dirty, data_size, data) ==
    LET index == L2_address_to_index(h.l2, address)
        way == IF mark_dirty THEN L2_address_present_in_way(h, address)
               ELSE h.l2_lru_mem[index]
        w == PyIndex(way, NUM_OF_WAYS)
        start == L2_address_to_offset(h.l2, address)
        end == start + data_size
        tag == L2_address_to_tag(h.l2, address)
        tag_mem_entry == BitOr(tag, h.l2.valid_mask)
        entry == IF mark_dirty THEN BitOr(tag_mem_entry, h.l2.dirty_mask)
                 ELSE tag_mem_entry
        h1 == [h EXCEPT
                 !.l2_data_mem[index][w] =
                    [x \in DOMAIN h.l2_data_mem[index][w] |->
                        IF x >= start /\ x < end
                        THEN data[x - start + 1] ELSE h.l2_data_mem[index][w][x]],
                 !.l2_tag_mem[index][w] = entry]
    IN [h |-> IF h1.l2_lru_mem[index] = way
              THEN [h1 EXCEPT !.l2_lru_mem[index] = 1 - way] ELSE h1,
        cycles |-> L2_transfer_cycles(data_size)]

(***************************************************************************)
(* Observers.  They record what a call did in the fields reqs, flushes,     *)
(* fills, l2_mru and served of h; no operation of the program reads them.   *)
(***************************************************************************)
L2_entry_valid(h, entry) ==
    apply_mask(entry, h.l2.valid_mask, h.l2.valid_bit_index) # 0

L2_entry_dirty(h, entry) ==
    apply_mask(entry, h.l2.dirty_mask, h.l2.dirty_bit_index) # 0

L2_entry_tag(h, entry) == apply_mask(entry, h.l2.tag_mem_mask, 0)

L1_entry_valid(h, entry) ==
    ShiftR(BitAnd(entry, h.l1.valid_mask), h.l1.valid_bit_index) # 0

L1_entry_dirty(h, entry) ==
    ShiftR(BitAnd(entry, h.l1.dirty_mask), h.l1.dirty_bit_index) # 0

L1_entry_tag(h, entry) == BitAnd(entry, h.l1.tag_mem_mask)

\* whether the level that calls `level' (the one above it) holds the block of address
HeldAbove(h, level, address) ==
    CASE level = "L1" -> FALSE
      [] level = "L2" -> L1_is_address_present(h, address)
      [] level = "MM" -> IF h.levels = 2 THEN L2_is_address_present(h, address)
                         ELSE L1_is_address_present(h, address)

\* a request (load or store) arrives at a level
NoteRequest(h, op, level, address, size, hit) ==
    [h EXCEPT !.reqs = Append(@, [op |-> op, level |-> level, address |-> address,
                                  size |-> size, hit |-> hit,
                                  held_above |-> HeldAbove(h, level, address)])]

\* an L2 load or store returns: the way that served it is the most recent one
NoteAccess(h, level, address) ==
    IF level = "L2"
    THEN LET index == L2_address_to_index(h.l2, address)
         IN [h EXCEPT !.l2_mru[index] = L2_address_present_in_way(h, address),
                      !.served = Append(@,
                          [address |-> address, set |-> index,
                           ways |-> { w \in 0..(NUM_OF_WAYS - 1) :
                                        /\ L2_entry_valid(h, h.l2_tag_mem[index][w])
                                        /\ L2_entry_tag(h, h.l2_tag_mem[index][w])
                                             = L2_address_to_tag(h.l2, address) },
                           lru |-> h.l2_lru_mem[index]])]
    ELSE h

\* whether MainMemory holds data at address
MemHolds(h, address, data) ==
    \A i \in 1..Len(data) : h.mem[address + i - 1] = data[i]

\* whether L2 holds data at address (in the way the address is present in)
L2Holds(h, address, data) ==
    /\ L2_is_address_present(h, address)
    /\ LET index == L2_address_to_index(h.l2, address)
           way == L2_address_present_in_way(h, address)
           start == L2_address_to_offset(h.l2, address)
       IN \A i \in 1..Len(data) : h.l2_data_mem[index][way][start + i - 1] = data[i]

\* flush_if_needed returns after a write-back; dirty_after is the slot's dirty bit
NoteFlush(h, level, address, data, cycles, dirty_after) ==
    [h EXCEPT !.flushes = Append(@,
        [level |-> level, address |-> address, size |-> Len(data),
         cycles |-> cycles, dirty_after |-> dirty_after,
         mm_holds |-> MemHolds(h, address, data),
         next_holds |-> IF next_mem(h, level) = "L2" THEN L2Holds(h, address, data)
                        ELSE MemHolds(h, address, data)])]

\* the fill of a miss at L2 is done: pre is the hierarchy when the miss was found
NoteFill(pre, h, level, address) ==
    IF level = "L2"
    THEN LET index == L2_address_to_index(h.l2, address)
             way == L2_address_present_in_way(h, address)
             other == 1 - PyIndex(way, NUM_OF_WAYS)
         IN [h EXCEPT !.fills = Append(@,
               [set |-> index, way |-> way, mru |-> pre.l2_mru[index],
                victim |-> pre.l2_lru_mem[index],
                both_valid |-> \A w \in 0..(NUM_OF_WAYS - 1) :
                                   L2_entry_valid(pre, pre.l2_tag_mem[index][w]),
                other_kept |->
                    /\ L2_entry_valid(h, h.l2_tag_mem[index][other])
                         = L2_entry_valid(pre, pre.l2_tag_mem[index][other])
                    /\ L2_entry_tag(h, h.l2_tag_mem[index][other])
                         = L2_entry_tag(pre, pre.l2_tag_mem[index][other])])]
    ELSE h

(***************************************************************************)
(* MemoryInterface: the methods each level implements, and load / store.    *)
(***************************************************************************)
is_address_present(h, level, address) ==
    CASE level = "L1" -> L1_is_address_present(h, address)
      [] level = "L2" -> L2_is_address_present(h, address)
      [] level = "MM" -> TRUE

\* MainMemory.get_block_size raises; load and store never reach it there
get_block_size(h, level) ==
    CASE level = "L1" -> h.l1.block_size
      [] level = "L2" -> h.l2.block_size

read(h, level, address, data_size) ==
    CASE level = "L1" -> L1_read(h, address, data_size)
      [] level = "L2" -> L2_read(h, address, data_size)
      [] level = "MM" -> MM_read(h, address, data_size)

\* mutant of write: L1 does not allocate the fetched block (the fill is skipped)
write_no_allocate(h, level, address, mark_dirty, data_size, data) ==
    CASE level = "L1" /\ ~mark_dirty ->
             [h |-> h, cycles |-> L1_transfer_cycles(data_size)]
      [] level = "L1" /\ mark_dirty -> L1_write(h, address, mark_dirty, data_size, data)
      [] level = "L2" -> L2_write(h, address, mark_dirty, data_size, data)
      [] level = "MM" -> MM_write(h, address, mark_dirty, data_size, data)

\* mutant of write: every write to L1 marks the block dirty
write_L1_always_dirty(h, level, address, mark_dirty, data_size, data) ==
    CASE level = "L1" -> L1_write(h, address, TRUE, data_size, data)
      [] level = "L2" -> L2_write(h, address, mark_dirty, data_size, data)
      [] level = "MM" -> MM_write(h, address, mark_dirty, data_size, data)

write(h, level, address, mark_dirty, data_size, data) ==
    CASE level = "L1" -> L1_write(h, address, mark_dirty, data_size, data)
      [] level = "L2" -> L2_write(h, address, mark_dirty, data_size, data)
      [] level = "MM" -> MM_write(h, address, mark_dirty, data_size, data)

RECURSIVE load(_, _, _, _)
RECURSIVE store(_, _, _, _, _)

\* The value of a call is named as the one element of a set, { e(r) : r \in {call} },
\* so that the call is evaluated once however often its result r is used.
Only(S) == CHOOSE x \in S : TRUE

\* mutant of L1_flush_if_needed: a valid block is written back, dirty or clean
L1_flush_if_needed_clean_written_back(h, address) ==
    LET index == L1_address_to_block_num(h.l1, address)
        cached_tag_mem == h.l1_tag_mem[index]
        is_valid == ShiftR(BitAnd(cached_tag_mem, h.l1.valid_mask),
                           h.l1.valid_bit_index)
    IN IF is_valid # 0
       THEN LET block_start_address == index * h.l1.block_size
                tag == BitAnd(cached_tag_mem, h.l1.tag_mem_mask)
                flushed_address == L1_address_from_tag_index(h.l1, tag, index)
            IN Only({ Only({ Only({
                 [h |-> NoteFlush(h2, "L1", flushed_address, rd.data, st.cycles,
                                  L1_entry_dirty(h2, h2.l1_tag_mem[index])),
                  cycles |-> st.cycles]
                 : h2 \in { [st.h EXCEPT !.l1_tag_mem[index] =
                                            BitClear(@, h.l1.dirty_mask)] } })
                 : st \in { store(rd.h, next_mem(h, "L1"), flushed_address,
                                  h.l1.block_size, rd.data) } })
                 : rd \in { L1_read(h, block_start_address, h.l1.block_size) } })
       ELSE [h |-> h, cycles |-> 0]

L1_flush_if_needed(h, address) ==
    LET index == L1_address_to_block_num(h.l1, address)
        cached_tag_mem == h.l1_tag_mem[index]
        is_valid == ShiftR(BitAnd(cached_tag_mem, h.l1.valid_mask),
                           h.l1.valid_bit_index)
        is_dirty == ShiftR(BitAnd(cached_tag_mem, h.l1.dirty_mask),
                           h.l1.dirty_bit_index)
    IN IF is_valid # 0 /\ is_dirty # 0
       THEN LET block_start_address == index * h.l1.block_size
                tag == BitAnd(cached_tag_mem, h.l1.tag_mem_mask)
                flushed_address == L1_address_from_tag_index(h.l1, tag, index)
            IN Only({ Only({ Only({
                 [h |-> NoteFlush(h2, "L1", flushed_address, rd.data, st.cycles,
                                  L1_entry_dirty(h2, h2.l1_tag_mem[index])),
                  cycles |-> st.cycles]
                 : h2 \in { [st.h EXCEPT !.l1_tag_mem[index] =
                                            BitClear(@, h.l1.dirty_mask)] } })
                 : st \in { store(rd.h, next_mem(h, "L1"), flushed_address,
                                  h.l1.block_size, rd.data) } })
                 : rd \in { L1_read(h, block_start_address, h.l1.block_size) } })
       ELSE [h |-> h, cycles |-> 0]

\* mutant of L2_flush_if_needed: the LRU bit that the read of the victim flipped is
\* not flipped back
L2_flush_if_needed_lru_flipped(h, address) ==
    LET index == L2_address_to_index(h.l2, address)
        victim_way == h.l2_lru_mem[index]
        cached_tag_mem == h.l2_tag_mem[index][victim_way]
        is_valid == apply_mask(cached_tag_mem, h.l2.valid_mask, h.l2.valid_bit_index)
        is_dirty == apply_mask(cached_tag_mem, h.l2.dirty_mask, h.l2.dirty_bit_index)
    IN IF is_valid # 0 /\ is_dirty # 0
       THEN LET tag == apply_mask(cached_tag_mem, h.l2.tag_mem_mask, 0)
                flushed_address == L2_address_from_tag_index(h.l2, tag, index)
            IN Only({ Only({ Only({
                 [h |-> NoteFlush(h2, "L2", flushed_address, rd.data, st.cycles,
                                  L2_entry_dirty(h2, h2.l2_tag_mem[index][victim_way])),
                  cycles |-> st.cycles]
                 : h2 \in { [st.h EXCEPT !.l2_tag_mem[index][st.h.l2_lru_mem[index]] =
                                            BitClear(@, h.l2.dirty_mask)] } })
                 : st \in { store(rd.h, next_mem(h, "L2"), flushed_address,
                                  h.l2.block_size, rd.data) } })
                 : rd \in { L2_read(h, flushed_address, h.l2.block_size) } })
       ELSE [h |-> h, cycles |-> 0]

L2_flush_if_needed(h, address) ==
    LET index == L2_address_to_index(h.l2, address)
        victim_way == h.l2_lru_mem[index]
        cached_tag_mem == h.l2_tag_mem[index][victim_way]
        is_valid == apply_mask(cached_tag_mem, h.l2.valid_mask, h.l2.valid_bit_index)
        is_dirty == apply_mask(cached_tag_mem, h.l2.dirty_mask, h.l2.dirty_bit_index)
    IN IF is_valid # 0 /\ is_dirty # 0
       THEN LET tag == apply_mask(cached_tag_mem, h.l2.tag_mem_mask, 0)
                flushed_address == L2_address_from_tag_index(h.l2, tag, index)
            IN Only({ Only({ Only({ Only({
                 [h |-> NoteFlush(h2, "L2", flushed_address, rd.data, st.cycles,
                                  L2_entry_dirty(h2, h2.l2_tag_mem[index][victim_way])),
                  cycles |-> st.cycles]
                 : h2 \in { [st.h EXCEPT !.l2_tag_mem[index][st.h.l2_lru_mem[index]] =
                                            BitClear(@, h.l2.dirty_mask)] } })
                 : st \in { store(h1, next_mem(h, "L2"), flushed_address,
                                  h.l2.block_size, rd.data) } })
                 : h1 \in { [rd.h EXCEPT !.l2_lru_mem[index] = 1 - @] } })
                 : rd \in { L2_read(h, flushed_address, h.l2.block_size) } })
       ELSE [h |-> h, cycles |-> 0]

\* MainMemory.flush_if_needed raises; load and store never reach it there
flush_if_needed(h, level, address) ==
    CASE level = "L1" -> L1_flush_if_needed(h, address)
      [] level = "L2" -> L2_flush_if_needed(h, address)

\* mutant of load: on a miss the dirty victim is flushed before the block is fetched
load_flush_before_fetch(h, level, address, block_size) ==
    IF is_address_present(h, level, address)
    THEN Only({ Only({
           [h |-> NoteAccess(rd.h, level, address),
            data |-> rd.data, cycles |-> rd.cycles]
           : rd \in { read(h1, level, address, block_size) } })
           : h1 \in { NoteRequest(IncStat(h, level, "read_hits"),
                                  "load", level, address, block_size, TRUE) } })
    ELSE LET bs == get_block_size(h, level)
             block_start_address == address - (address % bs)
         IN Only({ Only({ Only({ Only({ Only({ Only({
              [h |-> NoteAccess(rd.h, level, address),
               data |-> fetched.data,
               cycles |-> fetched.cycles + fl.cycles + rd.cycles]
              : rd \in { read(filled, level, address, block_size) } })
              : filled \in { NoteFill(h1, wr.h, level, block_start_address) } })
              : wr \in { write(fetched.h, level, block_start_address, FALSE, bs,
                               fetched.data) } })
              : fetched \in { load(fl.h, next_mem(h1, level), block_start_address, bs) } })
              : fl \in { flush_if_needed(h1, level, address) } })
              : h1 \in { NoteRequest(IncStat(h, level, "read_misses"),
                                     "load", level, address, block_size, FALSE) } })

\* mutant of load: a miss asks the next level for the block twice
load_fetches_twice(h, level, address, block_size) ==
    IF is_address_present(h, level, address)
    THEN Only({ Only({
           [h |-> NoteAccess(rd.h, level, address),
            data |-> rd.data, cycles |-> rd.cycles]
           : rd \in { read(h1, level, address, block_size) } })
           : h1 \in { NoteRequest(IncStat(h, level, "read_hits"),
                                  "load", level, address, block_size, TRUE) } })
    ELSE LET bs == get_block_size(h, level)
             block_start_address == address - (address % bs)
         IN Only({ Only({ Only({ Only({ Only({ Only({ Only({
              [h |-> NoteAccess(rd.h, level, address),
               data |-> fetched.data,
               cycles |-> fetched.cycles + fl.cycles + rd.cycles]
              : rd \in { read(filled, level, address, block_size) } })
              : filled \in { NoteFill(h1, wr.h, level, block_start_address) } })
              : wr \in { write(fl.h, level, block_start_address, FALSE, bs,
                               fetched.data) } })
              : fl \in { flush_if_needed(fetched.h, level, address) } })
              : fetched \in { load(first.h, next_mem(h1, level), block_start_address, bs) } })
              : first \in { load(h1, next_mem(h1, level), block_start_address, bs) } })
              : h1 \in { NoteRequest(IncStat(h, level, "read_misses"),
                                     "load", level, address, block_size, FALSE) } })

\* MemoryInterface.load.  In the miss branch the calls are, in program order
\* (bottom line first): fetched = next_mem.load, fl = flush_if_needed,
\* wr = write (the fill), rd = read.
load(h, level, address, block_size) ==
    IF is_address_present(h, level, address)
    THEN Only({ Only({
           [h |-> NoteAccess(rd.h, level, address),
            data |-> rd.data, cycles |-> rd.cycles]
           : rd \in { read(h1, level, address, block_size) } })
           : h1 \in { NoteRequest(IncStat(h, level, "read_hits"),
                                  "load", level, address, block_size, TRUE) } })
    ELSE LET bs == get_block_size(h, level)
             block_start_address == address - (address % bs)
         IN Only({ Only({ Only({ Only({ Only({ Only({
              [h |-> NoteAccess(rd.h, level, address),
               data |-> fetched.data,
               cycles |-> fetched.cycles + fl.cycles + rd.cycles]
              : rd \in { read(filled, level, address, block_size) } })
              : filled \in { NoteFill(h1, wr.h, level, block_start_address) } })
              : wr \in { write(fl.h, level, block_start_address, FALSE, bs,
                               fetched.data) } })
              : fl \in { flush_if_needed(fetched.h, level, address) } })
              : fetched \in { load(h1, next_mem(h1, level), block_start_address, bs) } })
              : h1 \in { NoteRequest(IncStat(h, level, "read_misses"),
                                     "load", level, address, block_size, FALSE) } })

\* mutant of store: a miss of a store that overwrites the whole block does not fetch it
store_whole_block_not_fetched(h, level, address, block_size, data) ==
    IF is_address_present(h, level, address)
    THEN Only({ Only({
           [h |-> NoteAccess(wr.h, level, address), cycles |-> wr.cycles]
           : wr \in { write(h1, level, address, TRUE, block_size, data) } })
           : h1 \in { NoteRequest(IncStat(h, level, "write_hits"),
                                  "store", level, address, block_size, TRUE) } })
    ELSE IF block_size = get_block_size(h, level)
    THEN Only({ Only({ Only({
           [h |-> NoteAccess(wr2.h, level, address), cycles |-> wr2.cycles]
           : wr2 \in { write(fl.h, level, address, TRUE, block_size, data) } })
           : fl \in { flush_if_needed(h1, level, address) } })
           : h1 \in { NoteRequest(IncStat(h, level, "write_misses"),
                                  "store", level, address, block_size, FALSE) } })
    ELSE LET bs == get_block_size(h, level)
             block_start_address == address - (address % bs)
         IN Only({ Only({ Only({ Only({ Only({ Only({
              [h |-> NoteAccess(wr2.h, level, address),
               cycles |-> fetched.cycles + fl.cycles + wr2.cycles]
              : wr2 \in { write(filled, level, address, TRUE, block_size, data) } })
              : filled \in { NoteFill(h1, wr.h, level, block_start_address) } })
              : wr \in { write(fl.h, level, block_start_address, FALSE, bs,
                               fetched.data) } })
              : fl \in { flush_if_needed(fetched.h, level, address) } })
              : fetched \in { load(h1, next_mem(h1, level), block_start_address, bs) } })
              : h1 \in { NoteRequest(IncStat(h, level, "write_misses"),
                                     "store", level, address, block_size, FALSE) } })

\* MemoryInterface.store.  In the miss branch the calls are, in program order
\* (bottom line first): fetched = next_mem.load, fl = flush_if_needed,
\* wr = write (the fill), wr2 = write (the data to store).
store(h, level, address, block_size, data) ==
    IF is_address_present(h, level, address)
    THEN Only({ Only({
           [h |-> NoteAccess(wr.h, level, address), cycles |-> wr.cycles]
           : wr \in { write(h1, level, address, TRUE, block_size, data) } })
           : h1 \in { NoteRequest(IncStat(h, level, "write_hits"),
                                  "store", level, address, block_size, TRUE) } })
    ELSE LET bs == get_block_size(h, level)
             block_start_address == address - (address % bs)
         IN Only({ Only({ Only({ Only({ Only({ Only({
              [h |-> NoteAccess(wr2.h, level, address),
               cycles |-> fetched.cycles + fl.cycles + wr2.cycles]
              : wr2 \in { write(filled, level, address, TRUE, block_size, data) } })
              : filled \in { NoteFill(h1, wr.h, level, block_start_address) } })
              : wr \in { write(fl.h, level, block_start_address, FALSE, bs,
                               fetched.data) } })
              : fl \in { flush_if_needed(fetched.h, level, address) } })
              : fetched \in { load(h1, next_mem(h1, level), block_start_address, bs) } })
              : h1 \in { NoteRequest(IncStat(h, level, "write_misses"),
                                     "store", level, address, block_size, FALSE) } })

(***************************************************************************)
(* sim.py: the trace driver.                                                *)
(***************************************************************************)
\* big_endian_to_little_endian; the top byte is masked after the shift, since
\* the mask 0xFF000000 itself exceeds the 32-bit integers of the model checker
big_endian_to_little_endian(data) ==
    << BitAnd(data, 255),
       ShiftR(BitAnd(data, 65280), 8),
       ShiftR(BitAnd(data, 16711680), 16),
       BitAnd(ShiftR(data, 24), 255) >>

(***************************************************************************)
(* Inputs of the model: the configurations (levels, b1, b2), the addresses  *)
(* and data words of the trace, the cycle counts of the non-memory          *)
(* instructions, and the memin file.  The addresses are in main memory's    *)
(* documented capacity (16MB, the whole 24-bit address space).  0 and 4 are *)
(* two words of one block when b1 = 8 or b2 = 8; 0, 4096, 16384 and 32768   *)
(* share an L1 slot; 0, 16384 and 32768 are three tags of one L2 set, and   *)
(* 4096 is in another L2 set.                                               *)
(***************************************************************************)
MaxInstr == 3

Configs ==
    { [levels |-> 1, b1 |-> 4, b2 |-> 0],
      [levels |-> 1, b1 |-> 8, b2 |-> 0],
      [levels |-> 2, b1 |-> 4, b2 |-> 4],
      [levels |-> 2, b1 |-> 4, b2 |-> 8] }

TraceAddrs == {0, 4, 4096, 16384, 32768}

DataWords == {287454020, 1432778632}    \* 0x11223344, 0x55667788

ExtraCycles == {0}

MaxBlockSize ==
    CHOOSE m \in {c.b1 : c \in Configs} \cup {c.b2 : c \in Configs} :
        \A c \in Configs : c.b1 <= m /\ c.b2 <= m

(***************************************************************************)
(* Inputs of the process runs: one Python process that calls run_sim once   *)
(* (sim.py) or several times (sim_graph.py).  Besides valid configurations  *)
(* there are a block size that is no power of two and a levels argument     *)
(* that is neither 1 nor 2.  MaxRuns bounds the calls of run_sim, and the   *)
(* instructions of all runs together are at most MaxInstr.                  *)
(***************************************************************************)
MaxRuns == 2

ProcConfigs ==
    { [levels |-> 1, b1 |-> 4, b2 |-> 0],
      [levels |-> 1, b1 |-> 16, b2 |-> 0],
      [levels |-> 1, b1 |-> 6, b2 |-> 0],
      [levels |-> 2, b1 |-> 4, b2 |-> 4],
      [levels |-> 3, b1 |-> 4, b2 |-> 0] }

ProcAddrs == {0, 4096}

ProcData == {287454020}

\* the bytes of the block of size bs that address a is in (a - a % bs onwards)
BlockOf(a, bs) == { a - (a % bs) + k : k \in 0..(bs - 1) }

ProcBlockSizes ==
    {c.b1 : c \in ProcConfigs} \cup {c.b2 : c \in {d \in ProcConfigs : d.levels = 2}}

\* the addresses of the blocks the traces can touch
MemDom ==
    UNION { BlockOf(a, MaxBlockSize) : a \in TraceAddrs }
      \cup UNION { BlockOf(a, bs) : a \in ProcAddrs, bs \in ProcBlockSizes }

\* the positions of L1's data array that an access to address a of n bytes uses
L1Range(self, a, n) ==
    { L1_address_to_block_num(self, a) * self.block_size
        + L1_address_to_offset(self, a) + k : k \in 0..(n - 1) }

\* the positions the process runs touch: the fill of a block, the access to the
\* word, and the read of a slot in flush_if_needed
ProcL1Dom ==
    UNION { LET self == L1Cache_init(c.b1)
            IN L1Range(self, a - (a % c.b1), c.b1)
                 \cup L1Range(self, a, c.b1)
                 \cup L1Range(self, L1_address_to_block_num(self, a) * c.b1, c.b1)
            : c \in ProcConfigs, a \in ProcAddrs }

L1DataDom == { x % L1_CACHE_SIZE_IN_BYTES : x \in MemDom } \cup ProcL1Dom
L1TagDom(self) == { L1_address_to_block_num(self, x) : x \in MemDom }
L2SetDom(self) == { L2_address_to_index(self, x) : x \in MemDom }

\* memin: a file giving every byte the trace can touch a value of its own
MemInFiles ==
    { [x \in MemDom |-> (x \div 4096) * 16 + (x % 16) + 1] }

\* a memin file of 16 lines: it gives the bytes at the addresses 0..15 only
ShortMemIn ==
    [x \in {y \in MemDom : y < 16} |-> (x % 16) + 1]

\* the memin argument of a process run: an existing file with its lines, or a path
\* that names no file
MemInArgs ==
    { [exists |-> TRUE, lines |-> ShortMemIn],
      [exists |-> FALSE, lines |-> [x \in {} |-> 0]] }

\* the class attributes MainMemory.mem and L1Cache.data_mem when the modules are
\* imported: [0] * size
ZeroMem == [x \in MemDom |-> 0]
ZeroL1Data == [x \in L1DataDom |-> 0]

\* MainMemory.__init__: the lines of the file are written over self.mem, the list of
\* the class, from address 0 on; a byte the file does not reach keeps its value
MainMemory_init(mem0, file) ==
    [x \in DOMAIN mem0 |-> IF x \in DOMAIN file THEN file[x] ELSE mem0[x]]

Levels == {"L1", "L2", "MM"}

ZeroStats ==
    [read_hits |-> 0, read_misses |-> 0, write_hits |-> 0, write_misses |-> 0]

VARIABLES
    levels,                               \* run_sim's argument
    l1, l2,                               \* the fields set by the caches' __init__
    mem,                                  \* MainMemory.mem
    l1_data_mem, l1_tag_mem,              \* L1Cache
    l2_data_mem, l2_tag_mem, l2_lru_mem,  \* L2Cache
    stats,                                \* read_hits .. write_misses per level
    cc_counter, mem_cc_counter, count_mem_instructions,   \* simulate_cpu
    last,                                 \* the instruction executed last
    reqs, flushes, fills,                 \* what it did at each level
    l2_mru,                               \* way of the last L2 load/store per set
    served,                               \* L2 as each of its loads/stores returned
    shadow,                               \* last word stored by the CPU per address
    wb,                                   \* write-backs done so far per level
    phase,                                \* where the process is: "start", "running",
                                          \* "returned", "raised" or "exited"
    outcome,                              \* how the last run_sim ended
    exit_code,                            \* the exit status of the process (-1: none yet)
    runs,                                 \* calls of run_sim so far
    prior,                                \* instructions executed by the earlier runs
    memin,                                \* the memin file of the running simulation
    files,                                \* the output files as they are on disk
    twin                                  \* the same simulation run by a fresh process

vars == << levels, l1, l2, mem, l1_data_mem, l1_tag_mem, l2_data_mem, l2_tag_mem,
           l2_lru_mem, stats, cc_counter, mem_cc_counter, count_mem_instructions,
           last, reqs, flushes, fills, l2_mru, served, shadow, wb,
           phase, outcome, exit_code, runs, prior, memin, files, twin >>

\* the hierarchy as the instruction finds it
H ==
    [levels |-> levels, l1 |-> l1, l2 |-> l2, mem |-> mem,
     l1_data_mem |-> l1_data_mem, l1_tag_mem |-> l1_tag_mem,
     l2_data_mem |-> l2_data_mem, l2_tag_mem |-> l2_tag_mem,
     l2_lru_mem |-> l2_lru_mem, stats |-> stats,
     reqs |-> << >>, flushes |-> << >>, fills |-> << >>, l2_mru |-> l2_mru,
     served |-> << >>]

(***************************************************************************)
(* The output files.  A dump has one line per byte: hex(entry)[2:] in upper *)
(* case, padded with zeros to two characters.                               *)
(***************************************************************************)
HexDigits ==
    << "0", "1", "2", "3", "4", "5", "6", "7", "8", "9", "A", "B", "C", "D", "E", "F" >>

\* hex(n)[2:].upper(): the digits of n in base 16
RECURSIVE hex(_)
hex(n) ==
    IF n < 16 THEN << HexDigits[n + 1] >>
    ELSE Append(hex(n \div 16), HexDigits[(n % 16) + 1])

\* int(entry, 16) of a line of hexadecimal digits (MainMemory.__init__ reads memin
\* with it)
HexValue(ch) == CHOOSE v \in 0..15 : HexDigits[v + 1] = ch

RECURSIVE int16(_)
int16(str) ==
    IF Len(str) = 0 THEN 0
    ELSE 16 * int16(SubSeq(str, 1, Len(str) - 1)) + HexValue(str[Len(str)])

\* str.zfill(2)
zfill2(str) == IF Len(str) < 2 THEN << "0" >> \o str ELSE str

\* MemoryInterface.dump_output_file: the lines of the file, by position
dump_output_file(list) == [x \in DOMAIN list |-> zfill2(hex(list[x]))]

\* L2Cache.mem_table_to_list: the blocks of one way, line after line
mem_table_to_list(h, way) ==
    [pos \in { i * h.l2.block_size + x :
                 i \in DOMAIN h.l2_data_mem, x \in 0..(h.l2.block_size - 1) } |->
        h.l2_data_mem[pos \div h.l2.block_size][way][pos % h.l2.block_size]]

\* no output file is written yet; run is the run_sim call that wrote the dumps
NoFiles ==
    [run |-> 0, memout |-> << >>, l1 |-> << >>, l2way0 |-> << >>, l2way1 |-> << >>,
     stats |-> << >>]

\* dump_mem_hierarchy_to_files: L1 dumps l1, L2 (if there) its two ways, MainMemory
\* memout; with levels = 1 the files of the two ways are not touched
dump_mem_hierarchy_to_files(h, old) ==
    IF h.levels = 1
    THEN [old EXCEPT !.l1 = dump_output_file(h.l1_data_mem),
                     !.memout = dump_output_file(h.mem)]
    ELSE [old EXCEPT !.l1 = dump_output_file(h.l1_data_mem),
                     !.l2way0 = dump_output_file(mem_table_to_list(h, 0)),
                     !.l2way1 = dump_output_file(mem_table_to_list(h, 1)),
                     !.memout = dump_output_file(h.mem)]

\* "{0:.4f}".format(n / d) for n >= 0, d > 0: the integer part and four decimals.
\* n / d is rounded to the nearest ten-thousandth; a quotient halfway between two
\* needs a denominator that is a multiple of 32, beyond the counts of the model.
Format4(n, d) ==
    LET q == (2 * n * 10000 + d) \div (2 * d)
    IN << q \div 10000, (q \div 1000) % 10, (q \div 100) % 10, (q \div 10) % 10, q % 10 >>

\* dump_statistics: the lines written to the stats file, and whether the division
\* of the AMAT raised ZeroDivisionError (the lines before it are written by then)
dump_statistics(h, cycles_elapsed, mem_cycles_elapsed, mem_instructions_count) ==
    LET c1 == h.stats["L1"]
        c2 == h.stats["L2"]
        l1_misses == c1.read_misses + c1.write_misses
        l1_hits == c1.read_hits + c1.write_hits
        l2_misses == c2.read_misses + c2.write_misses
        l2_hits == c2.read_hits + c2.write_hits
        l1_miss_rate == IF l1_misses + l1_hits > 0
                        THEN Format4(l1_misses, l1_misses + l1_hits)
                        ELSE Format4(0, 1)
        global_miss_rate ==
            IF h.levels = 1 THEN l1_miss_rate
            ELSE IF l2_misses + l2_hits > 0
                 THEN Format4(l1_misses * l2_misses,
                              (l1_misses + l1_hits) * (l2_misses + l2_hits))
                 ELSE Format4(0, 1)
        counters == << cycles_elapsed,
                       c1.read_hits, c1.write_hits, c1.read_misses, c1.write_misses >>
                    \o (IF h.levels = 1 THEN << 0, 0, 0, 0 >>
                        ELSE << c2.read_hits, c2.write_hits,
                                c2.read_misses, c2.write_misses >>)
                    \o << l1_miss_rate, global_miss_rate >>
    IN IF mem_instructions_count = 0
       THEN [lines |-> counters, raised |-> TRUE]
       ELSE [lines |-> Append(counters, Format4(mem_cycles_elapsed, mem_instructions_count)),
             raised |-> FALSE]

\* run_sim's construction for configuration c (levels 1 or 2): MainMemory(memin)
\* over the list mem0 of the class, L2Cache, and L1Cache over the list data0 of
\* the class; tag_mem and the arrays of L2 are made anew
Hierarchy(c, mem0, data0, file) ==
    LET self1 == L1Cache_init(c.b1)
        self2 == IF c.levels = 2 THEN L2Cache_init(c.b2) ELSE << >>
        sets == IF c.levels = 2 THEN L2SetDom(self2) ELSE {}
    IN [levels |-> c.levels, l1 |-> self1, l2 |-> self2,
        mem |-> MainMemory_init(mem0, file),
        l1_data_mem |-> data0,
        l1_tag_mem |-> [i \in L1TagDom(self1) |-> 0],
        l2_data_mem |-> IF c.levels = 2
                        THEN [s \in sets |-> [w \in 0..(NUM_OF_WAYS - 1) |->
                                                 [x \in 0..(c.b2 - 1) |-> 0]]]
                        ELSE << >>,
        l2_tag_mem |-> IF c.levels = 2
                       THEN [s \in sets |-> [w \in 0..(NUM_OF_WAYS - 1) |-> 0]]
                       ELSE << >>,
        l2_lru_mem |-> IF c.levels = 2 THEN [s \in sets |-> 0] ELSE << >>,
        stats |-> [l \in Levels |-> ZeroStats],
        reqs |-> << >>, flushes |-> << >>, fills |-> << >>, served |-> << >>,
        l2_mru |-> IF c.levels = 2 THEN [s \in sets |-> -1] ELSE << >>]

\* the observers' fields of a hierarchy emptied, as at the start of an instruction
Quiet(h) ==
    [h EXCEPT !.reqs = << >>, !.flushes = << >>, !.fills = << >>, !.served = << >>]

\* the twin simulation executes the same trace line (simulate_cpu's loop body)
TwinLoad(t, address, extra) ==
    Only({ [h |-> Quiet(r.h), cc |-> t.cc + extra + r.cycles,
            mem_cc |-> t.mem_cc + r.cycles, count |-> t.count + 1]
           : r \in { load(t.h, "L1", address, CPU_DATA_SIZE) } })

TwinStore(t, address, data_little_end, extra) ==
    Only({ [h |-> Quiet(r.h), cc |-> t.cc + extra + r.cycles,
            mem_cc |-> t.mem_cc + r.cycles, count |-> t.count + 1]
           : r \in { store(t.h, "L1", address, CPU_DATA_SIZE, data_little_end) } })

\* run_sim up to the call of simulate_cpu: MainMemory(memin), L2Cache, L1Cache
InitWith(cfgs, memins) ==
    \E c \in cfgs, m \in memins :
        /\ levels = c.levels
        /\ l1 = L1Cache_init(c.b1)
        /\ l2 = IF c.levels = 2 THEN L2Cache_init(c.b2) ELSE << >>
        /\ mem = MainMemory_init(ZeroMem, m)
        /\ l1_data_mem = [x \in L1DataDom |-> 0]
        /\ l1_tag_mem = [i \in L1TagDom(L1Cache_init(c.b1)) |-> 0]
        /\ l2_data_mem = IF c.levels = 2
                         THEN [s \in L2SetDom(L2Cache_init(c.b2)) |->
                                 [w \in 0..(NUM_OF_WAYS - 1) |->
                                    [x \in 0..(c.b2 - 1) |-> 0]]]
                         ELSE << >>
        /\ l2_tag_mem = IF c.levels = 2
                        THEN [s \in L2SetDom(L2Cache_init(c.b2)) |-> [w \in 0..(NUM_OF_WAYS - 1) |-> 0]]
                        ELSE << >>
        /\ l2_lru_mem = IF c.levels = 2 THEN [s \in L2SetDom(L2Cache_init(c.b2)) |-> 0] ELSE << >>
        /\ stats = [l \in Levels |-> ZeroStats]
        /\ cc_counter = 0 /\ mem_cc_counter = 0 /\ count_mem_instructions = 0
        /\ last = [op |-> "none", address |-> 0, data |-> << >>,
                   fetched |-> << >>, cycles |-> 0]
        /\ reqs = << >> /\ flushes = << >> /\ fills = << >> /\ served = << >>
        /\ l2_mru = IF c.levels = 2 THEN [s \in L2SetDom(L2Cache_init(c.b2)) |-> -1] ELSE << >>
        /\ shadow = [a \in TraceAddrs |-> << >>]
        /\ wb = [l \in Levels |-> 0]
        /\ phase = "running" /\ outcome = "none" /\ exit_code = -1
        /\ runs = 1 /\ prior = 0
        /\ memin = m
        /\ files = NoFiles
        /\ twin = << >>

Init == InitWith(Configs, MemInFiles)

\* the state the instruction leaves behind
Commit(h) ==
    /\ mem' = h.mem
    /\ l1_data_mem' = h.l1_data_mem /\ l1_tag_mem' = h.l1_tag_mem
    /\ l2_data_mem' = h.l2_data_mem /\ l2_tag_mem' = h.l2_tag_mem
    /\ l2_lru_mem' = h.l2_lru_mem
    /\ stats' = h.stats
    /\ reqs' = h.reqs /\ flushes' = h.flushes /\ fills' = h.fills
    /\ served' = h.served
    /\ l2_mru' = h.l2_mru
    /\ wb' = [l \in Levels |->
                wb[l] + Cardinality({i \in 1..Len(h.flushes) : h.flushes[i].level = l})]
    /\ UNCHANGED << levels, l1, l2 >>

\* simulate_cpu, one trace line "<extra> L <address>"
Load(address, extra) ==
    /\ phase = "running"
    /\ count_mem_instructions < MaxInstr
    /\ \E h \in {H} : \E r \in {load(h, "L1", address, CPU_DATA_SIZE)} :
          /\ Commit(r.h)
          /\ cc_counter' = cc_counter + extra + r.cycles
          /\ mem_cc_counter' = mem_cc_counter + r.cycles
          /\ last' = [op |-> "L", address |-> address, data |-> << >>,
                      fetched |-> r.data, cycles |-> r.cycles]
    /\ count_mem_instructions' = count_mem_instructions + 1
    /\ twin' = IF runs > 1 THEN TwinLoad(twin, address, extra) ELSE twin
    /\ UNCHANGED << shadow, phase, outcome, exit_code, runs, prior, memin, files >>

\* simulate_cpu, one trace line "<extra> S <address> <data>"
Store(address, data, extra) ==
    /\ phase = "running"
    /\ count_mem_instructions < MaxInstr
    /\ \E data_little_end \in {big_endian_to_little_endian(data)} :
       \E h \in {H} : \E r \in {store(h, "L1", address, CPU_DATA_SIZE, data_little_end)} :
          /\ Commit(r.h)
          /\ cc_counter' = cc_counter + extra + r.cycles
          /\ mem_cc_counter' = mem_cc_counter + r.cycles
          /\ last' = [op |-> "S", address |-> address, data |-> data_little_end,
                      fetched |-> << >>, cycles |-> r.cycles]
          /\ shadow' = [shadow EXCEPT ![address] = data_little_end]
          /\ twin' = IF runs > 1 THEN TwinStore(twin, address, data_little_end, extra)
                     ELSE twin
    /\ count_mem_instructions' = count_mem_instructions + 1
    /\ UNCHANGED << phase, outcome, exit_code, runs, prior, memin, files >>

Next ==
    \/ \E a \in TraceAddrs, e \in ExtraCycles : Load(a, e)
    \/ \E a \in TraceAddrs, d \in DataWords, e \in ExtraCycles : Store(a, d, e)

Spec == Init /\ [][Next]_vars

\* the runs with one cache level, and those with two
ConfigsL1 == { c \in Configs : c.levels = 1 }
ConfigsL2 == { c \in Configs : c.levels = 2 }

SpecL1 == InitWith(ConfigsL1, MemInFiles) /\ [][Next]_vars
SpecL2 == InitWith(ConfigsL2, MemInFiles) /\ [][Next]_vars

(***************************************************************************)
(* The process: sim.py's main block calls run_sim once; sim_graph.py calls  *)
(* it in a loop.  Both catch Exception, print the traceback and fall off    *)
(* the end of the script; SystemExit (exit(1)) is not an Exception and      *)
(* passes through.                                                          *)
(***************************************************************************)
simvars == << levels, l1, l2, l1_data_mem, l1_tag_mem, l2_data_mem, l2_tag_mem,
              l2_lru_mem, stats, cc_counter, mem_cc_counter, last, reqs, flushes,
              fills, l2_mru, served, shadow, wb >>

\* the interpreter has imported the modules: the lists of the classes exist, no
\* object is constructed
InitProc ==
    /\ phase = "start" /\ outcome = "none" /\ exit_code = -1
    /\ runs = 0 /\ prior = 0
    /\ mem = ZeroMem
    /\ l1_data_mem = ZeroL1Data
    /\ levels = 0 /\ l1 = << >> /\ l2 = << >>
    /\ l1_tag_mem = << >>
    /\ l2_data_mem = << >> /\ l2_tag_mem = << >> /\ l2_lru_mem = << >>
    /\ stats = [l \in Levels |-> ZeroStats]
    /\ cc_counter = 0 /\ mem_cc_counter = 0 /\ count_mem_instructions = 0
    /\ last = [op |-> "none", address |-> 0, data |-> << >>,
               fetched |-> << >>, cycles |-> 0]
    /\ reqs = << >> /\ flushes = << >> /\ fills = << >> /\ served = << >>
    /\ l2_mru = << >>
    /\ shadow = [a \in TraceAddrs |-> << >>]
    /\ wb = [l \in Levels |-> 0]
    /\ memin = [x \in {} |-> 0]
    /\ files = NoFiles
    /\ twin = << >>

\* sim.py's main block: int(sys.argv[i]) of an argument that is no integer raises
\* ValueError before run_sim is called
BadArgument ==
    /\ phase = "start"
    /\ phase' = "raised" /\ outcome' = "ValueError"
    /\ UNCHANGED << simvars, mem, count_mem_instructions, exit_code, runs, prior,
                    memin, files, twin >>

\* run_sim up to the call of simulate_cpu.  MainMemory(memin) comes first: a path
\* that names no file raises FileNotFoundError; then levels is looked at, and a
\* value other than 1 and 2 ends in exit(1).  The block sizes are not looked at.
RunSim(c, f) ==
    /\ phase = "start" \/ (phase = "returned" /\ runs < MaxRuns)
    /\ runs' = runs + 1
    /\ prior' = prior + count_mem_instructions
    /\ count_mem_instructions' = 0
    /\ IF ~f.exists
       THEN /\ phase' = "raised" /\ outcome' = "FileNotFoundError"
            /\ UNCHANGED << simvars, mem, memin, twin >>
       ELSE IF c.levels \notin {1, 2}
       THEN /\ mem' = MainMemory_init(mem, f.lines)
            /\ phase' = "raised" /\ outcome' = "SystemExit"
            /\ UNCHANGED << simvars, memin, twin >>
       ELSE \E h \in { Hierarchy(c, mem, l1_data_mem, f.lines) } :
            /\ levels' = h.levels /\ l1' = h.l1 /\ l2' = h.l2
            /\ mem' = h.mem
            /\ l1_data_mem' = h.l1_data_mem /\ l1_tag_mem' = h.l1_tag_mem
            /\ l2_data_mem' = h.l2_data_mem /\ l2_tag_mem' = h.l2_tag_mem
            /\ l2_lru_mem' = h.l2_lru_mem
            /\ stats' = h.stats
            /\ cc_counter' = 0 /\ mem_cc_counter' = 0
            /\ last' = [op |-> "none", address |-> 0, data |-> << >>,
                        fetched |-> << >>, cycles |-> 0]
            /\ reqs' = << >> /\ flushes' = << >> /\ fills' = << >> /\ served' = << >>
            /\ l2_mru' = h.l2_mru
            /\ shadow' = [a \in TraceAddrs |-> << >>]
            /\ wb' = [l \in Levels |-> 0]
            /\ memin' = f.lines
            /\ twin' = IF runs >= 1
                       THEN [h |-> Hierarchy(c, ZeroMem, ZeroL1Data, f.lines),
                             cc |-> 0, mem_cc |-> 0, count |-> 0]
                       ELSE twin
            /\ phase' = "running" /\ outcome' = "none"
    /\ UNCHANGED << exit_code, files >>

\* simulate_cpu: open(trace) of a path that names no readable file raises
\* FileNotFoundError before the first line is read
TraceUnreadable ==
    /\ phase = "running" /\ count_mem_instructions = 0
    /\ phase' = "raised" /\ outcome' = "FileNotFoundError"
    /\ UNCHANGED << simvars, mem, count_mem_instructions, exit_code, runs, prior,
                    memin, files, twin >>

\* simulate_cpu, a trace line whose first field is no integer: int() raises
\* ValueError
MalformedLine ==
    /\ phase = "running"
    /\ phase' = "raised" /\ outcome' = "ValueError"
    /\ UNCHANGED << simvars, mem, count_mem_instructions, exit_code, runs, prior,
                    memin, files, twin >>

\* run_sim after the last trace line: dump_mem_hierarchy_to_files, then
\* dump_statistics, then "Simulation ended successfully" and the return
Finish ==
    /\ phase = "running"
    /\ \E h \in {H} :
       \E st \in { dump_statistics(h, cc_counter, mem_cc_counter,
                                   count_mem_instructions) } :
          /\ files' = [dump_mem_hierarchy_to_files(h, files) EXCEPT
                          !.stats = st.lines, !.run = runs]
          /\ phase' = IF st.raised THEN "raised" ELSE "returned"
          /\ outcome' = IF st.raised THEN "ZeroDivisionError" ELSE "ok"
    /\ UNCHANGED << simvars, mem, count_mem_instructions, exit_code, runs, prior,
                    memin, twin >>

\* the end of the script: the exit status is 1 after exit(1) and 0 otherwise, also
\* when an Exception was caught and printed
MainExit ==
    /\ phase \in {"returned", "raised"}
    /\ phase' = "exited"
    /\ exit_code' = IF outcome = "SystemExit" THEN 1 ELSE 0
    /\ UNCHANGED << simvars, mem, count_mem_instructions, outcome, runs, prior,
                    memin, files, twin >>

NextProc ==
    \/ BadArgument
    \/ \E c \in ProcConfigs, f \in MemInArgs : RunSim(c, f)
    \/ TraceUnreadable
    \/ MalformedLine
    \/ \E a \in ProcAddrs :
          prior + count_mem_instructions < MaxInstr /\ Load(a, 0)
    \/ \E a \in ProcAddrs, d \in ProcData :
          prior + count_mem_instructions < MaxInstr /\ Store(a, d, 0)
    \/ Finish
    \/ MainExit

SpecProc == InitProc /\ [][NextProc]_vars

(***************************************************************************)
(* A client of the levels: after some trace lines it calls one method of a  *)
(* level itself, outside of load and store.  An exception the method raises *)
(* ends the client ("raised"); a method that returns leaves it at "called". *)
(***************************************************************************)
CallConfigs == { [levels |-> 1, b1 |-> 4, b2 |-> 0], [levels |-> 2, b1 |-> 4, b2 |-> 4],
                 [levels |-> 2, b1 |-> 4, b2 |-> 8] }

CallAddrs == {0, 16384}

CallData == {287454020}

\* the client leaves the instruction counters and the observers alone
CallFrame ==
    UNCHANGED << cc_counter, mem_cc_counter, count_mem_instructions, shadow,
                 exit_code, runs, prior, memin, files, twin >>

\* main_mem.get_block_size()
CallGetBlockSize ==
    /\ phase = "running"
    /\ \E r \in { MM_get_block_size(H) } :
          /\ Commit(r.h)
          /\ phase' = IF r.raised THEN "raised" ELSE "called"
          /\ outcome' = IF r.raised THEN "NotImplementedError" ELSE "returned"
    /\ last' = [op |-> "MM.get_block_size", address |-> 0, data |-> << >>,
                fetched |-> << >>, cycles |-> 0]
    /\ CallFrame

\* main_mem.flush_if_needed(address)
CallFlushIfNeeded(address) ==
    /\ phase = "running"
    /\ \E r \in { MM_flush_if_needed(H, address) } :
          /\ Commit(r.h)
          /\ phase' = IF r.raised THEN "raised" ELSE "called"
          /\ outcome' = IF r.raised THEN "NotImplementedError" ELSE "returned"
    /\ last' = [op |-> "MM.flush_if_needed", address |-> address, data |-> << >>,
                fetched |-> << >>, cycles |-> 0]
    /\ CallFrame

\* l1_cache.read(address, CPU_DATA_SIZE) or l2_cache.read(address, CPU_DATA_SIZE)
CallRead(level, address) ==
    /\ phase = "running"
    /\ level = "L2" => levels = 2
    /\ \E r \in { read(H, level, address, CPU_DATA_SIZE) } :
          /\ Commit(r.h)
          /\ last' = [op |-> IF level = "L1" THEN "L1.read" ELSE "L2.read", address |-> address, data |-> << >>,
                      fetched |-> r.data, cycles |-> r.cycles]
    /\ phase' = "called" /\ outcome' = "returned"
    /\ CallFrame

\* l1_cache.write(address, True, CPU_DATA_SIZE, data), or the same of l2_cache
CallWrite(level, address, data) ==
    /\ phase = "running"
    /\ level = "L2" => levels = 2
    /\ \E data_little_end \in { big_endian_to_little_endian(data) } :
       \E r \in { write(H, level, address, TRUE, CPU_DATA_SIZE, data_little_end) } :
          /\ Commit(r.h)
          /\ last' = [op |-> IF level = "L1" THEN "L1.write" ELSE "L2.write", address |-> address,
                      data |-> data_little_end, fetched |-> << >>, cycles |-> r.cycles]
    /\ phase' = "called" /\ outcome' = "returned"
    /\ CallFrame

\* l1_cache.write(address, False, CPU_DATA_SIZE, data)
CallWriteClean(address, data) ==
    /\ phase = "running"
    /\ \E data_little_end \in { big_endian_to_little_endian(data) } :
       \E r \in { write(H, "L1", address, FALSE, CPU_DATA_SIZE, data_little_end) } :
          /\ Commit(r.h)
          /\ last' = [op |-> "L1.write_clean", address |-> address,
                      data |-> data_little_end, fetched |-> << >>, cycles |-> r.cycles]
    /\ phase' = "called" /\ outcome' = "returned"
    /\ CallFrame

\* l1_cache.flush_if_needed(address) or l2_cache.flush_if_needed(address)
CallFlush(level, address) ==
    /\ phase = "running"
    /\ level = "L2" => levels = 2
    /\ \E r \in { flush_if_needed(H, level, address) } :
          /\ Commit(r.h)
          /\ last' = [op |-> IF level = "L1" THEN "L1.flush_if_needed"
                             ELSE "L2.flush_if_needed",
                      address |-> address, data |-> << >>, fetched |-> << >>,
                      cycles |-> r.cycles]
    /\ phase' = "called" /\ outcome' = "returned"
    /\ CallFrame

\* the byte counts a client asks the cost of
CallSizes == {4, 8, 16, 32, 64, 128, 256}

\* l1_cache.transfer_cycles(data_size) or l2_cache.transfer_cycles(data_size)
CallTransferCycles(level, data_size) ==
    /\ phase = "running"
    /\ level = "L2" => levels = 2
    /\ \E h \in {H} :
       \E c \in { IF level = "L1" THEN L1_transfer_cycles(data_size)
                  ELSE L2_transfer_cycles(data_size) } :
          /\ Commit(h)
          /\ last' = [op |-> IF level = "L1" THEN "L1.transfer_cycles"
                             ELSE "L2.transfer_cycles",
                      address |-> 0, data |-> << >>, fetched |-> << >>,
                      cycles |-> c, size |-> data_size]
    /\ phase' = "called" /\ outcome' = "returned"
    /\ CallFrame

NextCalls ==
    \/ \E a \in CallAddrs : Load(a, 0)
    \/ \E a \in CallAddrs, d \in CallData : Store(a, d, 0)
    \/ CallGetBlockSize
    \/ \E a \in CallAddrs : CallFlushIfNeeded(a)
    \/ \E level \in {"L1", "L2"}, a \in CallAddrs : CallRead(level, a)
    \/ \E level \in {"L1", "L2"}, a \in CallAddrs, d \in CallData : CallWrite(level, a, d)
    \/ \E level \in {"L1", "L2"}, n \in CallSizes : CallTransferCycles(level, n)
    \/ \E level \in {"L1", "L2"}, a \in CallAddrs : CallFlush(level, a)
    \/ \E a \in CallAddrs, d \in CallData : CallWriteClean(a, d)

SpecCalls == InitWith(CallConfigs, MemInFiles) /\ [][NextCalls]_vars

(***************************************************************************)
(* The address arithmetic of a cache object of any block size: a client     *)
(* constructs L1Cache(main_mem, block_size) or L2Cache(main_mem, block_size)*)
(* and takes an address apart and together again.                           *)
(***************************************************************************)
AddressBlockSizesL1 == {4, 8, 16, 32, 64, 128}

\* the block sizes for which L2 has at least one set
AddressBlockSizesL2 == {4, 8, 16, 32, 64, 128, 256, 512, 1024, 2048, 4096, 8192, 16384}

\* 24-bit addresses, of the first and the last block, aligned and not
AddressSamples == {0, 4, 5, 124, 132, 4092, 4100, 16380, 32772, 1048572, 8388612,
                   16777212, 16777215}

\* address_from_tag_index(address_to_tag(address), address_to_block_num(address)) of
\* L1Cache(main_mem, block_size)
CallAddressL1(block_size, address) ==
    /\ phase = "running"
    /\ \E self \in { L1Cache_init(block_size) } :
       \E tag \in { L1_address_to_tag(self, address) },
          index \in { L1_address_to_block_num(self, address) } :
          last' = [op |-> "L1.address_from_tag_index", address |-> address,
                   data |-> << >>, fetched |-> << >>, cycles |-> 0,
                   size |-> block_size,
                   bits |-> self.offset_bits + self.index_bits + self.tag_bits,
                   tag |-> tag, index |-> index, slots |-> self.num_of_blocks,
                   rebuilt |-> L1_address_from_tag_index(self, tag, index)]
    /\ Commit(H)
    /\ phase' = "called" /\ outcome' = "returned"
    /\ CallFrame

\* the same of L2Cache(main_mem, block_size), with the index and the tag as
\* address_present_in_way takes them
CallAddressL2(block_size, address) ==
    /\ phase = "running"
    /\ \E self \in { L2Cache_init(block_size) } :
       \E tag \in { L2_address_to_tag(self, address) },
          index \in { L2_address_to_index(self, address) } :
          last' = [op |-> "L2.address_from_tag_index", address |-> address,
                   data |-> << >>, fetched |-> << >>, cycles |-> 0,
                   size |-> block_size,
                   bits |-> self.offset_bits + self.index_bits + self.tag_bits,
                   tag |-> tag, index |-> index, slots |-> self.num_of_lines,
                   rebuilt |-> L2_address_from_tag_index(self, tag, index)]
    /\ Commit(H)
    /\ phase' = "called" /\ outcome' = "returned"
    /\ CallFrame

NextAddress ==
    \/ \E bs \in AddressBlockSizesL1, a \in AddressSamples : CallAddressL1(bs, a)
    \/ \E bs \in AddressBlockSizesL2, a \in AddressSamples : CallAddressL2(bs, a)

SpecAddress == InitWith({[levels |-> 1, b1 |-> 4, b2 |-> 0]}, MemInFiles) /\ [][NextAddress]_vars

(***************************************************************************)
(* Properties of the hierarchy.                                             *)
(***************************************************************************)
\* this step executes one trace instruction
Executed == count_mem_instructions' = count_mem_instructions + 1

\* the requests counted at a level
Reads(st, l) == st[l].read_hits + st[l].read_misses
Writes(st, l) == st[l].write_hits + st[l].write_misses
Misses(st, l) == st[l].read_misses + st[l].write_misses

\* the position of address a's bytes in L1's data array (direct mapped)
L1Position(a) ==
    ((a \div l1.block_size) % l1.num_of_blocks) * l1.block_size + (a % l1.block_size)

\* the word a load returned: load's result is the word on a hit, and on a miss the
\* block fetched from below, which holds the word at the address's offset
ServedWord ==
    LET n == Len(last.fetched)
        off == last.address % n
    IN IF n <= CPU_DATA_SIZE THEN last.fetched
       ELSE [i \in 1..CPU_DATA_SIZE |-> last.fetched[off + i]]

\* C1: a load of an address returns the word the CPU stored there last (no store to
\* that word in between), whatever hits, misses and evictions intervene.
C1_RoundTrip ==
    (last.op = "L" /\ shadow[last.address] # << >>)
        => ServedWord = shadow[last.address]

\* C2, first part: a CPU store that writes back no dirty victim leaves every byte of
\* MainMemory unchanged.
C2_StoreFrame ==
    (Executed /\ last'.op = "S" /\ Len(flushes') = 0) => mem' = mem

\* C2, second part: with levels = 1, after a store that misses into an invalid or
\* clean slot, MainMemory at the address holds its old bytes, L1 holds the new bytes
\* at the address's place and the slot is dirty.
C2_StoreMiss ==
    (Executed /\ last'.op = "S" /\ levels = 1
       /\ ~reqs'[1].hit /\ Len(flushes') = 0) =>
        LET a == last'.address
        IN /\ \A i \in 0..(CPU_DATA_SIZE - 1) : mem'[a + i] = mem[a + i]
           /\ \A i \in 0..(CPU_DATA_SIZE - 1) :
                  l1_data_mem'[L1Position(a) + i] = last'.data[i + 1]
           /\ L1_entry_dirty(H, l1_tag_mem'[L1_address_to_block_num(l1, a)])

\* C2, first part alone: a store that writes back no victim leaves MainMemory as it is.
C2_MainMemoryFrame == [][C2_StoreFrame]_vars

\* C2: write-back frame: a store changes MainMemory only by evicting a dirty victim,
\* and a store miss into an invalid or clean slot leaves the new bytes in L1 only.
C2_WriteBackFrame == [][C2_StoreFrame /\ C2_StoreMiss]_vars

\* C3, the victim of this step's miss: levels = 1, the address misses in L1 and its
\* slot holds a valid dirty block
C3_DirtyVictim(a) ==
    /\ Executed /\ levels = 1 /\ last'.address = a
    /\ ~L1_is_address_present(H, a)
    /\ L1_entry_valid(H, l1_tag_mem[L1_address_to_block_num(l1, a)])
    /\ L1_entry_dirty(H, l1_tag_mem[L1_address_to_block_num(l1, a)])

\* C3, first part: MainMemory at [victim_addr, victim_addr + BS) equals the bytes
\* the slot held before the miss.
C3_VictimInMemory(a) ==
    LET index == L1_address_to_block_num(l1, a)
        old_tag == L1_entry_tag(H, l1_tag_mem[index])
        victim_addr == BitOr(ShiftL(old_tag, l1.offset_bits + l1.index_bits),
                             ShiftL(index, l1.offset_bits))
    IN \A k \in 0..(l1.block_size - 1) :
          mem'[victim_addr + k] = l1_data_mem[index * l1.block_size + k]

\* C3, second part: every word stored earlier into the victim block is found in
\* MainMemory at its own address.
C3_StoredWordsInMemory(a) ==
    LET index == L1_address_to_block_num(l1, a)
        old_tag == L1_entry_tag(H, l1_tag_mem[index])
        victim_addr == BitOr(ShiftL(old_tag, l1.offset_bits + l1.index_bits),
                             ShiftL(index, l1.offset_bits))
    IN \A w \in TraceAddrs :
          (w - (w % l1.block_size) = victim_addr /\ shadow[w] # << >>) =>
              \A i \in 0..(CPU_DATA_SIZE - 1) : mem'[w + i] = shadow[w][i + 1]

\* C3: dirty eviction with levels = 1: when a miss finds a valid dirty block in its
\* slot, MainMemory afterwards holds that block at the victim's address, hence every
\* word stored earlier into the victim block at the word's own address.
C3_DirtyEviction ==
    [][\A a \in TraceAddrs :
          C3_DirtyVictim(a) => (C3_VictimInMemory(a) /\ C3_StoredWordsInMemory(a))]_vars

\* C3 without its consequence: the block written back is the block the slot held.
C3_VictimBlockWrittenBack ==
    [][\A a \in TraceAddrs : C3_DirtyVictim(a) => C3_VictimInMemory(a)]_vars

\* C4 as stated: after every flush_if_needed that wrote a block back, at either
\* level, the slot is clean and MainMemory holds the flushed bytes at the victim's
\* address.
C4_FlushedToMainMemory ==
    \A i \in 1..Len(flushes) :
        ~flushes[i].dirty_after /\ flushes[i].mm_holds

\* C4 (amended): after every flush_if_needed that wrote a block back, at either
\* level, the slot is clean and the level directly below (L2 for L1's flush when
\* levels = 2, MainMemory otherwise) holds the flushed bytes at the victim's address.
C4_FlushedToNextLevel ==
    \A i \in 1..Len(flushes) :
        ~flushes[i].dirty_after /\ flushes[i].next_holds

\* C4: one instruction of a two-level run writes back an L1 victim and an L2 victim
C4_Witness ==
    /\ levels = 2
    /\ \E i \in 1..Len(flushes) : flushes[i].level = "L1"
    /\ \E i \in 1..Len(flushes) : flushes[i].level = "L2"

\* C5: in a two-level run no L2 set holds the same tag valid in both ways.
C5_L2TagUnique ==
    levels = 2 =>
        \A s \in DOMAIN l2_tag_mem :
            ~ /\ L2_entry_valid(H, l2_tag_mem[s][0])
              /\ L2_entry_valid(H, l2_tag_mem[s][1])
              /\ L2_entry_tag(H, l2_tag_mem[s][0]) = L2_entry_tag(H, l2_tag_mem[s][1])

\* C5: an L2 set with both ways valid, after a store reached L2
C5_Witness ==
    /\ levels = 2
    /\ Writes(stats, "L2") > 0
    /\ \E s \in DOMAIN l2_tag_mem :
          L2_entry_valid(H, l2_tag_mem[s][0]) /\ L2_entry_valid(H, l2_tag_mem[s][1])

\* C6, the sums: L1's four counters add up to the instructions executed; each lower
\* level's reads are the misses, and its writes the dirty write-backs, of the level
\* directly above it.
C6_Sums ==
    /\ Reads(stats, "L1") + Writes(stats, "L1") = count_mem_instructions
    /\ levels = 2 =>
          /\ Reads(stats, "L2") = Misses(stats, "L1")
          /\ Writes(stats, "L2") = wb["L1"]
          /\ Reads(stats, "MM") = Misses(stats, "L2")
          /\ Writes(stats, "MM") = wb["L2"]
    /\ levels = 1 =>
          /\ Reads(stats, "MM") = Misses(stats, "L1")
          /\ Writes(stats, "MM") = wb["L1"]

\* C6: counter conservation: no counter ever decreases, and the sums hold after any
\* sequence of instructions.
C6_CounterConservation ==
    /\ []C6_Sums
    /\ [][\A l \in Levels : \A c \in DOMAIN ZeroStats : stats'[l][c] >= stats[l][c]]_vars

\* C6: a two-level run that has written back victims of L1 and of L2
C6_Witness ==
    levels = 2 /\ wb["L1"] > 0 /\ wb["L2"] > 0

\* C7, at L1: a load counts one read hit or one read miss, a store one write hit or
\* one write miss, a hit exactly when the address was present before.
C7_CountedAtL1 ==
    Executed =>
        LET present == L1_is_address_present(H, last'.address)
            counted == IF last'.op = "L"
                       THEN (IF present THEN "read_hits" ELSE "read_misses")
                       ELSE (IF present THEN "write_hits" ELSE "write_misses")
        IN \A c \in DOMAIN ZeroStats :
              stats'["L1"][c] = stats["L1"][c] + (IF c = counted THEN 1 ELSE 0)

\* C7, at L2: an L1 miss (of a load or of a store) reaches L2 as one load of the L1
\* block, counted as an L2 read; L2 counts a write only for a victim L1 writes back.
C7_CountedAtL2 ==
    (Executed /\ levels = 2 /\ ~L1_is_address_present(H, last'.address)) =>
        /\ reqs'[2] = [op |-> "load", level |-> "L2",
                       address |-> last'.address - (last'.address % l1.block_size),
                       size |-> l1.block_size, hit |-> reqs'[2].hit,
                       held_above |-> FALSE]
        /\ Reads(stats', "L2") = Reads(stats, "L2") + 1
        /\ Writes(stats', "L2") = Writes(stats, "L2")
              + Cardinality({i \in 1..Len(flushes') : flushes'[i].level = "L1"})

\* C7: hit/miss classification: the statistic is counted at the level where the
\* request arrives.
C7_HitMissClassification == [][C7_CountedAtL1 /\ C7_CountedAtL2]_vars

\* C7: a store missed L1 in a two-level run and was counted at L2 as a read miss
C7_Witness ==
    /\ levels = 2 /\ last.op = "S"
    /\ Len(reqs) >= 2 /\ ~reqs[1].hit
    /\ reqs[2].level = "L2" /\ reqs[2].op = "load" /\ ~reqs[2].hit
    /\ stats["L2"].read_misses > 0 /\ stats["L1"].write_misses > 0

\* C8, first part: the address of the instruction executed last is present in L1.
C8_Allocated ==
    last.op # "none" => L1_is_address_present(H, last.address)

\* C8, second part: an access to the address accessed last is an L1 hit that changes
\* no state and no counter of L2 or MainMemory.
C8_RepeatHits ==
    (Executed /\ last.op # "none" /\ last'.address = last.address) =>
        /\ Len(reqs') = 1 /\ reqs'[1].level = "L1" /\ reqs'[1].hit
        /\ Misses(stats', "L1") = Misses(stats, "L1")
        /\ stats'["L2"] = stats["L2"] /\ stats'["MM"] = stats["MM"]
        /\ UNCHANGED << mem, l2_data_mem, l2_tag_mem, l2_lru_mem >>

\* C8, third part: with levels = 2, an access to a block cached nowhere counts one
\* miss at L1 and one read miss at L2.
C8_FirstAccess ==
    (Executed /\ levels = 2
       /\ ~L1_is_address_present(H, last'.address)
       /\ ~L2_is_address_present(H, last'.address)) =>
        /\ Misses(stats', "L1") = Misses(stats, "L1") + 1
        /\ stats'["L2"].read_misses = stats["L2"].read_misses + 1
        /\ stats'["L2"].read_hits = stats["L2"].read_hits

\* C8: allocate on miss: after any load or store the address is in L1, a repeated
\* access hits L1 and touches nothing below, and a first access misses L1 and L2 once.
C8_AllocateOnMiss ==
    /\ []C8_Allocated
    /\ [][C8_RepeatHits /\ C8_FirstAccess]_vars

\* C8: in a two-level run a miss at both levels was followed by a hit in L1
C8_Witness ==
    /\ levels = 2 /\ last.op # "none"
    /\ Len(reqs) = 1 /\ reqs[1].hit
    /\ stats["L1"].read_hits + stats["L1"].write_hits = 1
    /\ stats["L2"].read_misses = 1 /\ Misses(stats, "L1") = 1
    /\ count_mem_instructions = 2

C10_CycleCost ==
    (levels = 1 /\ l1.block_size = 4 /\ last.op # "none") =>
        last.cycles = IF reqs[1].hit THEN 1
                      ELSE IF Len(flushes) = 0 THEN 101
                      ELSE 201

\* C10: a miss that wrote back a dirty victim, with levels = 1 and b1 = 4
C10_Witness ==
    /\ levels = 1 /\ l1.block_size = 4
    /\ Len(flushes) = 1 /\ ~reqs[1].hit
    /\ last.cycles = 201

(***************************************************************************)
(* Properties of MainMemory's cost, of the runs of a process and of the     *)
(* levels' contracts.                                                       *)
(***************************************************************************)
\* C11: a MainMemory access of n bytes costs 100 + ceil(8n / 64) - 1 cycles: with
\* levels = 1, a load that misses into a clean or invalid slot reads b1 bytes from
\* MainMemory and then pays L1's hit time of 1 (b1 = 16: 101 + 1 = 102).
C11_MainMemoryCost ==
    (levels = 1 /\ last.op = "L" /\ Len(reqs) = 2 /\ ~reqs[1].hit
       /\ reqs[2].level = "MM" /\ flushes = << >>)
        => last.cycles = (100 + Ceil(8 * reqs[2].size, 64) - 1) + 1

\* the output files of the twin: what run_sim writes in a process of its own
TwinFiles ==
    [dump_mem_hierarchy_to_files(twin.h, NoFiles) EXCEPT
        !.stats = dump_statistics(twin.h, twin.cc, twin.mem_cc, twin.count).lines]

\* C12: a simulation that ended successfully after an earlier simulation of the same
\* process wrote the cycle total, the counters and the dumps (memout, l1, and the two
\* ways of L2 when levels = 2) that the same inputs give in a process of their own.
C12_Determinism ==
    (phase = "returned" /\ runs > 1) =>
        /\ files.stats = TwinFiles.stats
        /\ files.memout = TwinFiles.memout
        /\ files.l1 = TwinFiles.l1
        /\ levels = 2 => /\ files.l2way0 = TwinFiles.l2way0
                         /\ files.l2way1 = TwinFiles.l2way1

\* a simulation is at its start: the hierarchy is constructed, no trace line is read
AtStart == phase = "running" /\ count_mem_instructions = 0

\* C13, the caches: at the start every L1 data byte, every tag entry and every lru
\* entry is 0
C13_CachesZero ==
    AtStart =>
        /\ \A x \in DOMAIN l1_data_mem : l1_data_mem[x] = 0
        /\ \A i \in DOMAIN l1_tag_mem : l1_tag_mem[i] = 0
        /\ levels = 2 =>
              /\ \A i \in DOMAIN l2_tag_mem :
                    \A w \in 0..(NUM_OF_WAYS - 1) : l2_tag_mem[i][w] = 0
              /\ \A i \in DOMAIN l2_lru_mem : l2_lru_mem[i] = 0

\* C13, MainMemory: at the start every byte at an address that memin does not cover
\* is 0
C13_MemoryZero ==
    AtStart => \A x \in DOMAIN mem : x \notin DOMAIN memin => mem[x] = 0

\* C13: at the start of every simulation, also after an earlier one in the same
\* process, the caches are all 0 and MainMemory is 0 wherever memin does not reach.
C13_InitialState == C13_CachesZero /\ C13_MemoryZero

\* the CPU has stored nothing in this simulation: the trace so far has only loads
ReadOnly == \A a \in DOMAIN shadow : shadow[a] = << >>

\* C14: while the trace has only loads, no slot of L1 or L2 is dirty, no
\* flush_if_needed has written a block back (each returned 0), no store has reached
\* L2 or MainMemory, and MainMemory holds what it held at the start; the dump of
\* MainMemory read back as a memin file gives these bytes again.
C14_ReadOnlyTrace ==
    ReadOnly =>
        /\ \A i \in DOMAIN l1_tag_mem : ~L1_entry_dirty(H, l1_tag_mem[i])
        /\ levels = 2 =>
              \A i \in DOMAIN l2_tag_mem : \A w \in 0..(NUM_OF_WAYS - 1) :
                  ~L2_entry_dirty(H, l2_tag_mem[i][w])
        /\ flushes = << >> /\ \A l \in Levels : wb[l] = 0
        /\ Writes(stats, "L1") = 0 /\ Writes(stats, "L2") = 0 /\ Writes(stats, "MM") = 0
        /\ mem = MainMemory_init(ZeroMem, memin)
        /\ \A x \in DOMAIN mem : int16(dump_output_file(mem)[x]) = mem[x]

\* three loads with levels = 2 that all missed at L1 and at L2 and replaced one
\* another in one L1 slot
C14_Witness ==
    /\ ReadOnly /\ levels = 2 /\ last.op = "L"
    /\ stats["L1"].read_misses = 3 /\ stats["L2"].read_misses = 3
    /\ Cardinality({i \in DOMAIN l1_tag_mem : l1_tag_mem[i] # 0}) = 1

\* the misses the running instruction found at level l, and the loads it sent to l
MissesAt(l) == { i \in 1..Len(reqs) : reqs[i].level = l /\ ~reqs[i].hit }
LoadsAt(l) == { i \in 1..Len(reqs) : reqs[i].level = l /\ reqs[i].op = "load" }

\* C15: every miss at L1 or L2, of a load or of a store (also a store of a whole
\* block), is followed at once by a load of the full block, address - address mod BS
\* of BS bytes, at the next level, sent while the level does not yet hold the block;
\* the next level receives one load for each miss and no other.
C15_FetchOnMiss ==
    /\ \A i \in 1..Len(reqs) :
          ~reqs[i].hit =>
             LET bs == get_block_size(H, reqs[i].level)
             IN /\ i < Len(reqs)
                /\ reqs[i + 1].op = "load"
                /\ reqs[i + 1].level = next_mem(H, reqs[i].level)
                /\ reqs[i + 1].address = reqs[i].address - (reqs[i].address % bs)
                /\ reqs[i + 1].size = bs
                /\ ~reqs[i + 1].held_above
    /\ levels = 1 => Cardinality(LoadsAt("MM")) = Cardinality(MissesAt("L1"))
    /\ levels = 2 => /\ Cardinality(LoadsAt("L2")) = Cardinality(MissesAt("L1"))
                     /\ Cardinality(LoadsAt("MM")) = Cardinality(MissesAt("L2"))

\* a store of a word that misses at L1 with block size 4 and at L2
C15_Witness ==
    /\ last.op = "S" /\ levels = 2 /\ l1.block_size = CPU_DATA_SIZE
    /\ Len(reqs) >= 3 /\ ~reqs[1].hit /\ ~reqs[2].hit
    /\ reqs[2].op = "load" /\ reqs[3].op = "load" /\ reqs[3].level = "MM"

\* this step is the client's call of one of the methods in ops
Called(ops) == phase = "running" /\ phase' # "running" /\ last'.op \in ops

\* what the levels hold and have counted
Stored ==
    << mem, l1_data_mem, l1_tag_mem, l2_data_mem, l2_tag_mem, l2_lru_mem, stats,
       cc_counter, mem_cc_counter, count_mem_instructions >>

\* C16: a call of get_block_size or flush_if_needed of MainMemory ends in
\* NotImplementedError, and no byte of a memory and no counter changes.
C16_MainMemoryContract ==
    [][Called({"MM.get_block_size", "MM.flush_if_needed"})
          => /\ phase' = "raised" /\ outcome' = "NotImplementedError"
             /\ UNCHANGED Stored]_vars

\* flush_if_needed of MainMemory was called after a store that missed, and raised
C16_Witness ==
    /\ phase = "raised" /\ outcome = "NotImplementedError"
    /\ last.op = "MM.flush_if_needed"
    /\ count_mem_instructions = 2 /\ stats["L1"].write_misses = 2
    /\ wb["L1"] = 1

\* the level whose method the client called
CallLevel(op) == IF op \in {"L1.read", "L1.write"} THEN "L1" ELSE "L2"

\* C17: read, or write with mark_dirty = True, called on L1 or L2 for an address the
\* level does not hold ends in an error: it returns nothing and changes no slot.
C17_AbsentDataIsFatal ==
    [][(/\ Called({"L1.read", "L2.read", "L1.write", "L2.write"})
        /\ ~is_address_present(H, CallLevel(last'.op), last'.address))
          => /\ phase' = "raised"
             /\ UNCHANGED Stored]_vars

\* C18: the process of sim.py (one call of run_sim at most) ends with exit status 0
\* exactly when the simulation ended successfully; an invalid levels argument, an
\* input file that cannot be read, a malformed trace line and an argument that is
\* no integer give a status other than 0.
C18_ExitStatus ==
    (phase = "exited" /\ runs <= 1) => (exit_code = 0 <=> outcome = "ok")

IsPowerOfTwo(n) == \E k \in DOMAIN Pow2Table : n = Pow2Table[k]

\* run_sim was called with a block size that is no power of two
BadBlockSize ==
    /\ runs >= 1 /\ levels \in {1, 2}
    /\ \/ ~IsPowerOfTwo(l1.block_size)
       \/ levels = 2 /\ ~IsPowerOfTwo(l2.block_size)

\* C19: run_sim called with a block size that is no power of two ends in an error; it
\* executes no trace instruction and writes no output file.
C19_BlockSizeValidated ==
    BadBlockSize => /\ count_mem_instructions = 0
                    /\ files.run # runs
                    /\ outcome # "ok"

ZeroRate == << 0, 0, 0, 0, 0 >>

\* C20: a simulation whose trace has no instruction ends successfully, and its stats
\* file holds 0 cycles, eight counters 0, both miss rates 0.0000 and the AMAT 0.0000.
C20_EmptyTrace ==
    (runs >= 1 /\ files.run = runs /\ count_mem_instructions = 0)
        => /\ outcome = "ok"
           /\ files.stats = << 0, 0, 0, 0, 0, 0, 0, 0, 0, ZeroRate, ZeroRate, ZeroRate >>

(***************************************************************************)
(* Properties of the statistics, of the addressing and of the order and the *)
(* cost of a miss.                                                          *)
(***************************************************************************)
\* n / d cut after four decimals: the integer part and the four digits of
\* floor(10000 * n / d)
Truncated4(n, d) ==
    LET q == (10000 * n) \div d
    IN << q \div 10000, (q \div 1000) % 10, (q \div 100) % 10, (q \div 10) % 10, q % 10 >>

\* a simulation of this process has returned and its stats file is on disk
StatsWritten == phase = "returned" /\ files.run = runs

\* C21: the global miss rate in the stats file is, with levels = 2, the product
\* (L1 misses / L1 accesses) * (L2 misses / L2 accesses) cut (not rounded) after
\* four decimals, and with levels = 1 the L1 miss rate of the line before.
C21_GlobalMissRate ==
    StatsWritten =>
        LET m1 == Misses(stats, "L1")
            a1 == Reads(stats, "L1") + Writes(stats, "L1")
            m2 == Misses(stats, "L2")
            a2 == Reads(stats, "L2") + Writes(stats, "L2")
        IN IF levels = 1 THEN files.stats[11] = files.stats[10]
           ELSE files.stats[11] = (IF a2 > 0 THEN Truncated4(m1 * m2, a1 * a2)
                                   ELSE Truncated4(0, 1))

\* C22, for a store that hits L1: the bytes of data_mem that change are those at
\* index(a) * BS + (a mod BS) and after, CPU_DATA_SIZE of them
C22_WriteInPlace ==
    (Executed /\ last'.op = "S" /\ reqs'[1].hit) =>
        LET pos == L1Position(last'.address)
        IN \A x \in DOMAIN l1_data_mem :
              l1_data_mem'[x] = IF x >= pos /\ x < pos + CPU_DATA_SIZE
                                THEN last'.data[x - pos + 1] ELSE l1_data_mem[x]

\* C22, for a load that hits L1: the bytes returned are those at the same place
C22_ReadInPlace ==
    (Executed /\ last'.op = "L" /\ reqs'[1].hit) =>
        LET pos == L1Position(last'.address)
        IN last'.fetched = [i \in 1..CPU_DATA_SIZE |-> l1_data_mem[pos + i - 1]]

\* C22: L1 read(a, n) and write(a, _, n, _) access the bytes of data_mem from
\* index(a) * BS + (a mod BS) on, n of them, so two words of one block never lie in
\* the same bytes of L1.
C22_L1ByteAddressing == [][C22_WriteInPlace /\ C22_ReadInPlace]_vars

\* the byte the hierarchy holds for address x: of the word the CPU stored last at
\* x's word, or of memin when the CPU stored none
ContentByte(x) ==
    LET w == x - (x % CPU_DATA_SIZE)
    IN IF w \in DOMAIN shadow /\ shadow[w] # << >>
       THEN shadow[w][(x % CPU_DATA_SIZE) + 1]
       ELSE MainMemory_init(ZeroMem, memin)[x]

Content(a, n) == [i \in 1..n |-> ContentByte(a + i - 1)]

\* C23: with levels = 2 and b1 <= b2, the load L1 sends to L2 for its block returns
\* b1 bytes, the content of the block's addresses, on a hit and on a miss of L2
\* (also for a block that is not the first of its L2 block); the fill leaves these
\* bytes in L1.
C23_L2HandsOverTheBlock ==
    (levels = 2 /\ last.op = "L" /\ ~reqs[1].hit) =>
        LET a == last.address - (last.address % l1.block_size)
        IN /\ last.fetched = Content(a, l1.block_size)
           /\ [i \in 1..l1.block_size |-> l1_data_mem[L1Position(a) + i - 1]]
                 = Content(a, l1.block_size)

\* the requests the next level received for the miss reqs[i]: those between reqs[i]
\* and the next request at the level of reqs[i]
SentBelow(i) ==
    LET after == { k \in (i + 1)..Len(reqs) : reqs[k].level = reqs[i].level }
        end == IF after = {} THEN Len(reqs) + 1
               ELSE CHOOSE k \in after : \A m \in after : k <= m
    IN { k \in (i + 1)..(end - 1) : reqs[k].level = next_mem(H, reqs[i].level) }

\* the stores the level below l received, and the victims l wrote back
StoresBelow(l) ==
    { k \in 1..Len(reqs) : reqs[k].op = "store" /\ reqs[k].level = next_mem(H, l) }
FlushesOf(l) == { k \in 1..Len(flushes) : flushes[k].level = l }

\* C24: for a miss at a cache level the next level receives first the load of the
\* new block and then at most one store, that of the dirty victim, sent while the
\* level still holds the victim; the fill and the serving of the request come after,
\* so when the instruction ends the level holds the block asked for.
C24_OrderOfAMiss ==
    /\ \A i \in 1..Len(reqs) :
          ~reqs[i].hit =>
              /\ (i + 1) \in SentBelow(i) /\ reqs[i + 1].op = "load"
              /\ Cardinality(SentBelow(i)) <= 2
              /\ \A k \in SentBelow(i) \ {i + 1} :
                    /\ reqs[k].op = "store" /\ reqs[k].held_above
                    /\ reqs[k].address # reqs[i + 1].address
              /\ is_address_present(H, reqs[i].level, reqs[i].address)
    /\ Cardinality(StoresBelow("L1")) = Cardinality(FlushesOf("L1"))
    /\ levels = 2 => Cardinality(StoresBelow("L2")) = Cardinality(FlushesOf("L2"))

\* a miss of L2 whose victim was dirty: MainMemory received the load, then the store
C24_Witness ==
    /\ levels = 2 /\ FlushesOf("L2") # {}
    /\ \E i \in 1..Len(reqs) :
          /\ reqs[i].level = "L2" /\ ~reqs[i].hit
          /\ Cardinality(SentBelow(i)) = 2

\* C25: L1's transfer_cycles(n) is HIT_TIME + (ceil(8n / 32) - 1) * BUS_ACCESS_TIME,
\* that is 1 + (ceil(8n / 32) - 1), for n in {4, 8, 16, 32, 64, 128}: 1 cycle for 4
\* bytes, 2 for 8, 32 for 128.
C25_L1TransferCost ==
    (last.op = "L1.transfer_cycles" /\ last.size <= 128)
        => last.cycles = 1 + (Ceil(8 * last.size, 32) - 1) * 1

\* C26, the function: L2's transfer_cycles(n) is 4 + (ceil(8n / 256) - 1) for n from 4
\* to 256: 4 up to 32 bytes, 5 for 64, 7 for 128
C26_Function ==
    last.op = "L2.transfer_cycles"
        => /\ last.cycles = 4 + (Ceil(8 * last.size, 256) - 1)
           /\ last.size <= 32 => last.cycles = 4
           /\ last.size = 64 => last.cycles = 5
           /\ last.size = 128 => last.cycles = 7

\* C26, in a simulation with levels = 2, b1 = 4, b2 = 8: a load that misses both
\* levels and writes back no victim costs 100 + 4 + 1, an L1 miss that hits L2 and
\* writes back no victim costs 4 + 1
C26_LoadCost ==
    (levels = 2 /\ l1.block_size = 4 /\ l2.block_size = 8
       /\ last.op = "L" /\ ~reqs[1].hit /\ flushes = << >>)
        => last.cycles = IF reqs[2].hit THEN 5 ELSE 105

\* C26: the cost of an L2 read or write of n bytes, alone and within a load.
C26_L2TransferCost == C26_Function /\ C26_LoadCost

\* the cost of 64 bytes was asked of L2 after a load that missed L1 and hit L2
C26_Witness ==
    /\ last.op = "L2.transfer_cycles" /\ last.size = 64 /\ last.cycles = 5
    /\ l2.block_size = 8 /\ count_mem_instructions = 3
    /\ stats["L2"].read_hits = 1

\* C27: when a load or a store of L2 for address a returns, a is held by exactly one
\* way w of its set and lru[set(a)] = 1 - w: the way just accessed is not the next
\* victim.
C27_LRUPointsAway ==
    \A i \in 1..Len(served) :
        /\ Cardinality(served[i].ways) = 1
        /\ \A w \in served[i].ways : served[i].lru = 1 - w

\* one instruction made two accesses to one L2 set that is full: the load of the new
\* block, served by one way, and the store of L1's victim, served by the other
C27_Witness ==
    /\ Len(served) = 2 /\ served[1].set = served[2].set
    /\ served[1].ways # served[2].ways
    /\ served[1].lru # served[2].lru
    /\ stats["L2"].read_hits >= 1

\* the way of L2 that would receive the block of address a: the LRU way of its set
VictimWay(a) == l2_lru_mem[L2_address_to_index(l2, a)]

\* C28, the call: flush_if_needed of L2 leaves every LRU bit as it was and changes
\* of the tags only the dirty bit of the LRU way of the address's set, which is clear
\* afterwards
C28_FlushKeepsLRU ==
    Called({"L2.flush_if_needed"}) =>
        LET a == last'.address
            set == L2_address_to_index(l2, a)
        IN /\ l2_lru_mem' = l2_lru_mem
           /\ \A s \in DOMAIN l2_tag_mem : \A w \in 0..(NUM_OF_WAYS - 1) :
                 l2_tag_mem'[s][w] = IF s = set /\ w = VictimWay(a)
                                     THEN BitClear(l2_tag_mem[s][w], l2.dirty_mask)
                                     ELSE l2_tag_mem[s][w]
           /\ l2_data_mem' = l2_data_mem

\* C28, the fill: the block fetched for a miss of L2 is written to the way that was
\* the LRU way when the miss was found, the one flush_if_needed looked at
C28_FillTakesVictimWay ==
    \A i \in 1..Len(fills') : fills'[i].way = fills'[i].victim

\* C28: flush_if_needed of L2 keeps the victim's identity: the LRU bit is the same
\* after it as before, with or without a write-back, only that way's dirty bit is
\* cleared, and the fill overwrites that way.
C28_VictimIdentity == [][C28_FlushKeepsLRU /\ C28_FillTakesVictimWay]_vars

\* flush_if_needed of L2 was called and wrote the dirty LRU way back to MainMemory
C28_Witness ==
    /\ last.op = "L2.flush_if_needed" /\ last.cycles > 0
    /\ Len(flushes) = 1 /\ flushes[1].level = "L2"
    /\ ~L2_entry_dirty(H, l2_tag_mem[L2_address_to_index(l2, last.address)]
                                    [VictimWay(last.address)])

\* the slot that would receive the block of address a at a level is valid and dirty
SlotDirty(level, a) ==
    IF level = "L1"
    THEN LET entry == l1_tag_mem[L1_address_to_block_num(l1, a)]
         IN L1_entry_valid(H, entry) /\ L1_entry_dirty(H, entry)
    ELSE LET entry == l2_tag_mem[L2_address_to_index(l2, a)][VictimWay(a)]
         IN L2_entry_valid(H, entry) /\ L2_entry_dirty(H, entry)

\* C29: flush_if_needed of L1 or L2 called for an address whose slot is invalid or
\* clean returns 0 cycles and changes nothing: not the level's data, tags and LRU
\* bits, not the next level, not a counter.
C29_FlushOfCleanSlot ==
    [][(/\ Called({"L1.flush_if_needed", "L2.flush_if_needed"})
        /\ ~SlotDirty(IF last'.op = "L1.flush_if_needed" THEN "L1" ELSE "L2",
                      last'.address))
          => /\ last'.cycles = 0
             /\ flushes' = << >>
             /\ UNCHANGED Stored]_vars

\* flush_if_needed of L1 was called for a slot that holds a valid clean block
C29_Witness ==
    /\ last.op = "L1.flush_if_needed" /\ last.cycles = 0
    /\ count_mem_instructions >= 1
    /\ L1_entry_valid(H, l1_tag_mem[L1_address_to_block_num(l1, last.address)])
    /\ ~L1_entry_dirty(H, l1_tag_mem[L1_address_to_block_num(l1, last.address)])
    /\ wb["L1"] = 0

\* C30, first part: an instruction leaves valid every L1 slot and every L2 way that
\* was valid before it
C30_ValidStaysValid ==
    Executed =>
        /\ \A i \in DOMAIN l1_tag_mem :
              L1_entry_valid(H, l1_tag_mem[i]) => L1_entry_valid(H, l1_tag_mem'[i])
        /\ levels = 2 =>
              \A s \in DOMAIN l2_tag_mem : \A w \in 0..(NUM_OF_WAYS - 1) :
                  L2_entry_valid(H, l2_tag_mem[s][w])
                      => L2_entry_valid(H, l2_tag_mem'[s][w])

\* C30, second part: after a load that missed L1 the slot of the address is valid
\* and clean and has the address's tag, whatever it held before; the same for the
\* way of L2 that took the block when L2 missed too
C30_RefilledSlot ==
    (Executed /\ last'.op = "L" /\ ~reqs'[1].hit) =>
        LET a == last'.address
            e1 == l1_tag_mem'[L1_address_to_block_num(l1, a)]
        IN /\ L1_entry_valid(H, e1) /\ ~L1_entry_dirty(H, e1)
           /\ L1_entry_tag(H, e1) = L1_address_to_tag(l1, a)
           /\ (levels = 2 /\ ~reqs'[2].hit) =>
                 \E w \in 0..(NUM_OF_WAYS - 1) :
                    LET e2 == l2_tag_mem'[L2_address_to_index(l2, a)][w]
                    IN /\ L2_entry_valid(H, e2) /\ ~L2_entry_dirty(H, e2)
                       /\ L2_entry_tag(H, e2) = L2_address_to_tag(l2, a)

\* C30: a slot of L1 or a way of L2 that is valid stays valid in every later state of
\* the simulation; a refill over another block leaves it valid and clean with the new
\* tag.
C30_NeverInvalid == [][C30_ValidStaysValid /\ C30_RefilledSlot]_vars

\* a load replaced a dirty block of L1: the victim was written back and the slot is
\* valid and clean with the tag of the loaded address
C30_Witness ==
    /\ last.op = "L" /\ ~reqs[1].hit
    /\ Len(flushes) >= 1 /\ flushes[1].level = "L1"
    /\ LET e1 == l1_tag_mem[L1_address_to_block_num(l1, last.address)]
       IN /\ L1_entry_valid(H, e1) /\ ~L1_entry_dirty(H, e1)
          /\ L1_entry_tag(H, e1) = L1_address_to_tag(l1, last.address)

(***************************************************************************)
(* Properties of the status bits, of the address arithmetic and of the      *)
(* cascade of one instruction.                                              *)
(***************************************************************************)
\* the block address an L1 tag entry stands for
L1BlockOfEntry(i, entry) == L1_address_from_tag_index(l1, L1_entry_tag(H, entry), i)

\* C31, per slot i of L1 and instruction: the dirty bit is set only by a CPU store
\* to the block the slot then holds, and cleared only by flush_if_needed, after the
\* block the slot held was stored to the next level
C31_SetAndCleared ==
    Executed =>
        \A i \in DOMAIN l1_tag_mem :
            LET old == l1_tag_mem[i]
                new == l1_tag_mem'[i]
                a == last'.address
            IN /\ (~L1_entry_dirty(H, old) /\ L1_entry_dirty(H, new)) =>
                     /\ last'.op = "S"
                     /\ i = L1_address_to_block_num(l1, a)
                     /\ L1_entry_tag(H, new) = L1_address_to_tag(l1, a)
               /\ (L1_entry_dirty(H, old)
                     /\ (~L1_entry_dirty(H, new)
                           \/ L1_entry_tag(H, new) # L1_entry_tag(H, old))) =>
                     \E k \in 1..Len(flushes') :
                         /\ flushes'[k].level = "L1"
                         /\ flushes'[k].address = L1BlockOfEntry(i, old)
                         /\ ~flushes'[k].dirty_after
                         /\ flushes'[k].next_holds

\* C31, a load: it sets no dirty bit, and when it missed the slot of the address is
\* valid and clean afterwards
C31_LoadLeavesClean ==
    (Executed /\ last'.op = "L") =>
        /\ \A i \in DOMAIN l1_tag_mem :
              L1_entry_dirty(H, l1_tag_mem'[i]) => L1_entry_dirty(H, l1_tag_mem[i])
        /\ ~reqs'[1].hit =>
              LET e == l1_tag_mem'[L1_address_to_block_num(l1, last'.address)]
              IN L1_entry_valid(H, e) /\ ~L1_entry_dirty(H, e)

\* C31: the dirty bit of an L1 slot goes from 0 to 1 only in a CPU store to the
\* slot's block and from 1 to 0 only in flush_if_needed after the write-back; a load
\* sets no dirty bit and a load miss leaves its slot valid and clean.
C31_DirtyTransitions == [][C31_SetAndCleared /\ C31_LoadLeavesClean]_vars

\* a store missed onto a dirty block of another tag: the victim's dirty bit was
\* cleared by the flush and the store set the dirty bit of the new block
C31_Witness ==
    /\ last.op = "S" /\ ~reqs[1].hit
    /\ Len(flushes) >= 1 /\ flushes[1].level = "L1" /\ ~flushes[1].dirty_after
    /\ flushes[1].address # last.address - (last.address % l1.block_size)
    /\ L1_entry_dirty(H, l1_tag_mem[L1_address_to_block_num(l1, last.address)])

\* C32: write(a, mark_dirty, n, bytes) of L1 onto a slot that holds tag(a) leaves
\* dirty = old dirty or mark_dirty (a write with mark_dirty False onto a dirty block
\* of the same tag leaves it dirty); onto an invalid slot or one of another tag,
\* dirty = mark_dirty.
C32_WriteKeepsDirty ==
    [][Called({"L1.write", "L1.write_clean"}) =>
          LET a == last'.address
              i == L1_address_to_block_num(l1, a)
              old == l1_tag_mem[i]
              mark_dirty == last'.op = "L1.write"
              same == L1_entry_valid(H, old)
                          /\ L1_entry_tag(H, old) = L1_address_to_tag(l1, a)
          IN L1_entry_dirty(H, l1_tag_mem'[i])
                = IF same THEN (L1_entry_dirty(H, old) \/ mark_dirty) ELSE mark_dirty]_vars

\* C33: for L1 with every block size in {4, ..., 128} and for L2 with every block
\* size, offset_bits + index_bits + tag_bits = 24, and for every 24-bit address a
\* address_from_tag_index(tag(a), index(a)) = a - (a mod BS), the block-aligned
\* address; L1 with block size 128 has 32 blocks.
C33_Decomposition ==
    last.op \in {"L1.address_from_tag_index", "L2.address_from_tag_index"}
        => /\ last.bits = 24
           /\ last.rebuilt = last.address - (last.address % last.size)
           /\ (last.op = "L1.address_from_tag_index" /\ last.size = 128)
                 => last.slots = 32

\* an address of the upper half of the address space with every field non-zero is
\* rebuilt for L1 with blocks of 128 bytes, and for L2 with blocks of 256 bytes
C33_Witness ==
    /\ last.op \in {"L1.address_from_tag_index", "L2.address_from_tag_index"}
    /\ last.size = IF last.op = "L1.address_from_tag_index" THEN 128 ELSE 256
    /\ last.address = 8388612
    /\ last.tag > 0 /\ last.rebuilt = 8388608

\* the requests of this instruction that level l received, of one kind
RequestsAt(rs, l, op) == { k \in 1..Len(rs) : rs[k].level = l /\ rs[k].op = op }

\* C34: MainMemory never misses: its read_misses and write_misses are 0 in every
\* reachable state, every load that arrives at it adds 1 to read_hits and every
\* store 1 to write_hits, and it calls no further level: the requests of an
\* instruction are those of L1, of L2 and of MainMemory, and MainMemory receives
\* one load for each miss of the last cache and one store for each victim that
\* cache wrote back, and nothing else.
C34_Step ==
    Executed =>
        LET cache == IF levels = 2 THEN "L2" ELSE "L1"
            mmreqs == { k \in 1..Len(reqs') : reqs'[k].level = "MM" }
        IN /\ stats'["MM"].read_misses = 0 /\ stats'["MM"].write_misses = 0
           /\ stats'["MM"].read_hits
                 = stats["MM"].read_hits + Cardinality(RequestsAt(reqs', "MM", "load"))
           /\ stats'["MM"].write_hits
                 = stats["MM"].write_hits + Cardinality(RequestsAt(reqs', "MM", "store"))
           /\ \A k \in mmreqs : reqs'[k].hit
           /\ \A k \in 1..Len(reqs') : reqs'[k].level \in {"L1", "L2", "MM"}
           /\ Cardinality(RequestsAt(reqs', "MM", "load"))
                 = Cardinality({ k \in 1..Len(reqs') :
                                   reqs'[k].level = cache /\ ~reqs'[k].hit })
           /\ Cardinality(RequestsAt(reqs', "MM", "store"))
                 = Cardinality({ k \in 1..Len(flushes') :
                                   flushes'[k].level = cache /\ flushes'[k].cycles > 0 })

C34_MainMemoryNeverMisses == [][C34_Step]_vars

\* an instruction on two levels that sends MainMemory a load and a store
C34_Witness ==
    /\ levels = 2 /\ last.op \in {"L", "S"}
    /\ RequestsAt(reqs, "MM", "load") # {} /\ RequestsAt(reqs, "MM", "store") # {}
    /\ stats["MM"].read_hits >= 2 /\ stats["MM"].write_hits >= 1
    /\ stats["MM"].read_misses = 0 /\ stats["MM"].write_misses = 0

\* the byte the hierarchy below L1 holds for address x: L2's copy when L2 holds the
\* block, MainMemory's otherwise
BelowL1Byte(x) ==
    IF levels = 2 /\ L2_is_address_present(H, x)
    THEN l2_data_mem[L2_address_to_index(l2, x)][L2_address_present_in_way(H, x)]
                    [x % l2.block_size]
    ELSE mem[x]

\* the L1 slot i is valid and clean and holds the bytes the levels below hold
L1SlotMirrors(i) ==
    LET entry == l1_tag_mem[i]
        a == L1BlockOfEntry(i, entry)
    IN (L1_entry_valid(H, entry) /\ ~L1_entry_dirty(H, entry))
          => \A j \in 0..(l1.block_size - 1) :
                l1_data_mem[i * l1.block_size + j] = BelowL1Byte(a + j)

\* the way w of the L2 set i is valid and clean and holds MainMemory's bytes
L2WayMirrors(i, w) ==
    LET entry == l2_tag_mem[i][w]
        a == L2_address_from_tag_index(l2, L2_entry_tag(H, entry), i)
    IN (L2_entry_valid(H, entry) /\ ~L2_entry_dirty(H, entry))
          => \A j \in 0..(l2.block_size - 1) : l2_data_mem[i][w][j] = mem[a + j]

\* C35: between two instructions every valid clean L1 slot holds the bytes the
\* hierarchy below L1 holds for the addresses of its block (L2's copy if L2 holds
\* the block, MainMemory's otherwise), and every valid clean L2 way holds
\* MainMemory's bytes for its block.
C35_CleanBlocksMirror ==
    /\ \A i \in DOMAIN l1_tag_mem : L1SlotMirrors(i)
    /\ levels = 2 =>
          \A i \in DOMAIN l2_tag_mem : \A w \in 0..(NUM_OF_WAYS - 1) : L2WayMirrors(i, w)

\* C36: in every reachable state every L1 slot and every L2 way whose dirty bit is
\* 1 has its valid bit 1, and the tag an entry stores is below 2^tag_bits: the entry
\* is the tag plus the dirty and valid bits that are set, nothing of the tag lies on
\* or above them.
C36_DirtyImpliesValid ==
    /\ \A i \in DOMAIN l1_tag_mem :
          LET entry == l1_tag_mem[i]
              flags == (IF L1_entry_valid(H, entry) THEN l1.valid_mask ELSE 0)
                         + (IF L1_entry_dirty(H, entry) THEN l1.dirty_mask ELSE 0)
          IN /\ L1_entry_dirty(H, entry) => L1_entry_valid(H, entry)
             /\ entry - flags = L1_entry_tag(H, entry)
             /\ entry - flags < Pow2(l1.tag_bits)
    /\ levels = 2 =>
          \A i \in DOMAIN l2_tag_mem : \A w \in 0..(NUM_OF_WAYS - 1) :
             LET entry == l2_tag_mem[i][w]
                 flags == (IF L2_entry_valid(H, entry) THEN l2.valid_mask ELSE 0)
                            + (IF L2_entry_dirty(H, entry) THEN l2.dirty_mask ELSE 0)
             IN /\ L2_entry_dirty(H, entry) => L2_entry_valid(H, entry)
                /\ entry - flags = L2_entry_tag(H, entry)
                /\ entry - flags < Pow2(l2.tag_bits)

\* a dirty L1 slot and a dirty L2 way, both with a tag that is not 0
C36_Witness ==
    /\ levels = 2
    /\ \E i \in DOMAIN l1_tag_mem :
          L1_entry_dirty(H, l1_tag_mem[i]) /\ L1_entry_tag(H, l1_tag_mem[i]) > 0
    /\ \E i \in DOMAIN l2_tag_mem : \E w \in 0..(NUM_OF_WAYS - 1) :
          L2_entry_dirty(H, l2_tag_mem[i][w]) /\ L2_entry_tag(H, l2_tag_mem[i][w]) > 0

\* the loads, and the stores, the next level received for the request reqs[i]
LoadsBelow(i) == { k \in SentBelow(i) : reqs[k].op = "load" }
StoresSentBelow(i) == { k \in SentBelow(i) : reqs[k].op = "store" }

\* C37: every instruction ends, and while it runs each cache level sends the level
\* below at most one load and at most one store for each request it receives: with
\* one level MainMemory receives at most 1 load and 1 store for an instruction, with
\* two levels L2 receives at most 1 load and 1 store and MainMemory at most 2 loads
\* and 2 stores.
C37_BoundedCascade ==
    last.op \in {"L", "S"} =>
        /\ Len(reqs) >= 1 /\ reqs[1].level = "L1"
        /\ Cardinality(RequestsAt(reqs, "L1", "load"))
              + Cardinality(RequestsAt(reqs, "L1", "store")) = 1
        /\ \A i \in 1..Len(reqs) :
              reqs[i].level \in {"L1", "L2"} =>
                 /\ Cardinality(LoadsBelow(i)) <= 1
                 /\ Cardinality(StoresSentBelow(i)) <= 1
        /\ levels = 1 =>
              /\ Cardinality(RequestsAt(reqs, "MM", "load")) <= 1
              /\ Cardinality(RequestsAt(reqs, "MM", "store")) <= 1
              /\ RequestsAt(reqs, "L2", "load") \cup RequestsAt(reqs, "L2", "store") = {}
        /\ levels = 2 =>
              /\ Cardinality(RequestsAt(reqs, "L2", "load")) <= 1
              /\ Cardinality(RequestsAt(reqs, "L2", "store")) <= 1
              /\ Cardinality(RequestsAt(reqs, "MM", "load")) <= 2
              /\ Cardinality(RequestsAt(reqs, "MM", "store")) <= 2

\* an instruction on two levels for which L2 receives a load and a store, both
\* misses, and MainMemory two loads and a store
C37_Witness ==
    /\ levels = 2 /\ last.op \in {"L", "S"}
    /\ Cardinality(RequestsAt(reqs, "L2", "load")) = 1
    /\ Cardinality(RequestsAt(reqs, "L2", "store")) = 1
    /\ Cardinality(RequestsAt(reqs, "MM", "load")) = 2
    /\ Cardinality(RequestsAt(reqs, "MM", "store")) = 1

\* C38: with two levels and b1 <= b2, when an instruction misses in L1 the block it
\* asked for is present in L1 and in L2 when the instruction ends: the write-back of
\* L1's dirty victim into L2, also when it misses in L2 and falls into the same L2
\* set, does not evict the block L2 just fetched or served.
C38_FetchedBlockSurvives ==
    (levels = 2 /\ l1.block_size <= l2.block_size
       /\ last.op \in {"L", "S"} /\ ~reqs[1].hit)
        => /\ L1_is_address_present(H, last.address)
           /\ L2_is_address_present(H, last.address)

\* an L1 miss whose victim's write-back misses in L2, in the set of the block asked
\* for, which L2 had to fetch too
C38_Witness ==
    /\ levels = 2 /\ last.op \in {"L", "S"} /\ ~reqs[1].hit
    /\ \E k \in 1..Len(reqs) :
          /\ reqs[k].level = "L2" /\ reqs[k].op = "store" /\ ~reqs[k].hit
          /\ L2_address_to_index(l2, reqs[k].address)
                = L2_address_to_index(l2, last.address)
    /\ \E k \in 1..Len(reqs) : reqs[k].level = "L2" /\ reqs[k].op = "load" /\ ~reqs[k].hit
    /\ L2_is_address_present(H, last.address)

====
